---- MODULE Spec2Model ----
(***************************************************************************)
(* Ride lifecycle controller of the driver application (RideProvider of   *)
(* src/unnamed/part_002, and the earlier RideProvider of                  *)
(* src/unnamed/part_001, whose operations carry the prefix P1_).          *)
(*                                                                         *)
(* The store (the hosted database) is the only thing the driver sessions   *)
(* share.  Every store call (one awaited supabase query) is one atomic     *)
(* step; the code that runs after the await up to the next await runs in   *)
(* the same step.  A controller operation made of several store calls is   *)
(* therefore several steps, and steps of different calls interleave.       *)
(***************************************************************************)
EXTENDS Integers, FiniteSets, Sequences, TLC

\* ------------------------------------------------------------------ bounds
NumDrivers == 2      \* driver sessions
NumRides   == 2      \* rows of the rides table
NumOtp     == 2      \* distinct OTP codes (the code draws one of 1000..9999)
NumCalls   == 2      \* controller calls that can be awaiting the store at once
NumBookings == 1     \* rows of the scheduled_bookings table
NumGateCalls == 1    \* calls of the OTP gate scenario that can overlap
NumReasons == 2      \* distinct cancellation reasons
NumPolls   == 2      \* loads of the notification bridge that can overlap

Drivers == 1..NumDrivers
Rides   == 1..NumRides
Otps    == 1..NumOtp
Calls   == 1..NumCalls
Bookings == 1..NumBookings
GateCalls == 1..NumGateCalls
Polls == 1..NumPolls

NumMinutes == 2      \* distinct trip durations, in minutes
NumPlaces  == 3      \* places on the road, one km apart
NumSamples == 3      \* location samples kept of one trip
NumSubscriptions == 2 \* location subscriptions that can exist at once
SettledRuns == 2     \* runs of an effect that settles: one that writes, one that sees it
Minutes == 1..NumMinutes
Places == 1..NumPlaces
Subscriptions == 1..NumSubscriptions

\* SQL NULL / JavaScript null, for a driver reference, an OTP, a fare, a ride.
NULL == 0

\* rides.status
RideStatus == {"requested", "accepted", "driver_arrived", "in_progress",
               "completed", "cancelled"}

\* The reasons a driver gives cancelRide (any string; none is null).
Reasons == 1..NumReasons

\* What useAuth() hands the controller as `driver` when an operation starts.
DriverProfiles == {"complete", "unverified", "incomplete"}

\* ------------------------------------------------------------ fare (regular)
\* Money is counted in hundredths, distance in tenths of a kilometre.
DefaultDistance == 52     \* actualDistance when nothing was tracked: 5.2 km
DefaultDuration == 25     \* actualDuration when no start time: 25 minutes

\* The active fare_matrix row completeRide reads.
fare_matrix ==
  [base_fare |-> 5000, per_km_rate |-> 1000, per_minute_rate |-> 0,
   platform_fee_percent |-> 0, minimum_fare |-> 10000]

Max(a, b) == IF a >= b THEN a ELSE b

\* (mutation) the platform fee is added after the minimum fare is applied.
totalFare_feeLast(distance, duration, fm) ==
  LET distanceFare == (distance * fm.per_km_rate) \div 10
      timeFare     == duration * fm.per_minute_rate
      subtotal     == fm.base_fare + distanceFare + timeFare
      platformFee  == (subtotal * fm.platform_fee_percent) \div 100
  IN  Max(subtotal, fm.minimum_fare) + platformFee

\* completeRide, the regular/airport/outstation branch.
totalFare(distance, duration, fm) ==
  LET distanceFare    == (distance * fm.per_km_rate) \div 10
      timeFare        == duration * fm.per_minute_rate
      subtotal        == fm.base_fare + distanceFare + timeFare
      platformFee     == (subtotal * fm.platform_fee_percent) \div 100
      calculatedTotal == subtotal + platformFee
  IN  Max(calculatedTotal, fm.minimum_fare)

\* a || b of the code, for numbers: b when a is null or 0.
Or(a, b) == IF a = 0 THEN b ELSE a

\* completeRide, the rental branch: the base fare, the booked hours and the
\* platform fee on them.
rentalFare_completeRide(rental_hours, fm) ==
  LET rentalHours == Or(rental_hours, 4)
      hourlyRate  == Or(fm.hourly_rate, 15000)
      hourlyFare  == rentalHours * hourlyRate
  IN  fm.base_fare + hourlyFare + (hourlyFare * fm.platform_fee_percent) \div 100

\* handleCompleteTrip, the rental branch (a row of rental_fares).
rentalFare(rental_hours, actualDuration, tripDistance, fm) ==
  LET rentalHours     == Or(rental_hours, 4)
      hourlyRate      == Or(fm.hourly_rate, 15000)
      hourlyFare      == rentalHours * hourlyRate
      driverAllowance == fm.driver_allowance_per_day
      actualHours     == (actualDuration + 59) \div 60
      overtimeHours   == Max(0, actualHours - rentalHours)
      overtimeFare    == overtimeHours * Or(fm.overtime_rate, (hourlyRate * 12) \div 10)
      includedKm      == rentalHours * Or(fm.km_limit_per_hour, 10)
      extraKm         == Max(0, tripDistance - includedKm * 10)
      extraKmFare     == (extraKm * Or(fm.extra_km_rate, 800)) \div 10
  IN  hourlyFare + overtimeFare + extraKmFare + driverAllowance

\* endTime.getHours() of a time of day given in minutes.
getHours(time) == time \div 60

\* handleCompleteTrip, the outstation branch (a row of outstation_fares).
outstationFare(tripDistance, endTime, fm) ==
  LET baseFare           == Or(fm.base_fare, 50000)
      perKmRate          == Or(fm.per_km_rate, 1400)
      driverAllowance    == Or(fm.driver_allowance, 30000)
      distanceFare       == (tripDistance * perKmRate) \div 10
      isNightTime        == getHours(endTime) >= 22 \/ getHours(endTime) <= 6
      nightChargePercent == IF isNightTime THEN Or(fm.night_charge_percent, 20) ELSE 0
      nightCharge        == IF isNightTime
                            THEN ((baseFare + distanceFare) * nightChargePercent) \div 100
                            ELSE 0
  IN  baseFare + distanceFare + driverAllowance + nightCharge

\* handleCompleteTrip, the airport branch (a row of airport_fares); the
\* multiplier is counted in tenths.
airportFare(tripDistance, endTime, fm) ==
  LET baseFare       == Or(fm.base_fare, 20000)
      perKmRate      == Or(fm.per_km_rate, 1600)
      airportFee     == Or(fm.airport_fee, 10000)
      distanceFare   == (tripDistance * perKmRate) \div 10
      hour           == getHours(endTime)
      isPeakHour     == (hour >= 6 /\ hour <= 10) \/ (hour >= 18 /\ hour <= 22)
      peakMultiplier == IF isPeakHour THEN Or(fm.peak_hour_multiplier, 15) ELSE 10
      subtotal       == baseFare + distanceFare + airportFee
  IN  (subtotal * peakMultiplier) \div 10

\* A row of one of the fare tables; a field the table lacks is 0.
FareRow(base, perKm, perMinute, feePercent, minimum, hourly, overtime, kmLimit, extraKm, allowancePerDay, allowance, nightPercent, airportFee, peakMultiplier) ==
  [base_fare |-> base, per_km_rate |-> perKm, per_minute_rate |-> perMinute,
   platform_fee_percent |-> feePercent, minimum_fare |-> minimum,
   hourly_rate |-> hourly, overtime_rate |-> overtime, km_limit_per_hour |-> kmLimit,
   extra_km_rate |-> extraKm, driver_allowance_per_day |-> allowancePerDay,
   driver_allowance |-> allowance, night_charge_percent |-> nightPercent,
   airport_fee |-> airportFee, peak_hour_multiplier |-> peakMultiplier]

\* The inputs of one completion: the ride or booking, what the trip took, the
\* time of day it ends at (in minutes), the fare row; no fare yet.
CompletionInput(type, distance, duration, endTime, hours, row) ==
  [booking_type |-> type, distance |-> distance, duration |-> duration,
   endTime |-> endTime, rental_hours |-> hours, row |-> row, by |-> "none",
   total |-> 0]

\* The completions the fare is computed for.  Rates are whole amounts and
\* percents multiples of ten, so every division above is exact.
RegularCompletions ==
  {CompletionInput("regular", distance, duration, 720, 0,
                   FareRow(base, perKm, perMinute, feePercent, minimum,
                           0, 0, 0, 0, 0, 0, 0, 0, 0)) :
     distance \in {DefaultDistance, 125}, duration \in {DefaultDuration, 30},
     base \in {5000, 8000}, perKm \in {1000, 1200}, perMinute \in {0, 100},
     feePercent \in {0, 10}, minimum \in {10000, 30000}}
RentalCompletions ==
  {CompletionInput("rental", distance, duration, 720, 4,
                   FareRow(base, 0, 0, feePercent, 0, 15000, overtime, 10,
                           extraKm, allowancePerDay, 0, 0, 0, 0)) :
     distance \in {300, 450}, duration \in {200, 240, 300, 301},
     base \in {5000}, feePercent \in {0, 10}, overtime \in {18000, 20000},
     extraKm \in {800, 1000}, allowancePerDay \in {20000, 30000}}
OutstationCompletions ==
  {CompletionInput("outstation", distance, DefaultDuration, endTime, 0,
                   FareRow(base, perKm, 0, 0, 0, 0, 0, 0, 0, 0, allowance,
                           nightPercent, 0, 0)) :
     distance \in {1000, 1500}, endTime \in {330, 360, 390, 720, 1310, 1320, 1410},
     base \in {50000}, perKm \in {1400, 1600}, allowance \in {30000},
     nightPercent \in {10, 20}}
AirportCompletions ==
  {CompletionInput("airport", distance, DefaultDuration, endTime, 0,
                   FareRow(base, perKm, 0, 0, 0, 0, 0, 0, 0, 0, 0, 0, airportFee,
                           peakMultiplier)) :
     distance \in {200, 350}, endTime \in {330, 360, 600, 630, 720, 1080, 1320, 1350},
     base \in {20000}, perKm \in {1600, 1800}, airportFee \in {10000},
     peakMultiplier \in {12, 15}}

\* ------------------------------------------------------------------- state
VARIABLES
  rides,          \* store: rides table, [Rides -> row]
  driverStatus,   \* store: drivers.status, [Drivers -> "online" | "busy" | "offline"]
  live_locations, \* store: live_locations, [Drivers -> BOOLEAN] (a row exists)
  currentRide,    \* session state: [Drivers -> NULL or the ride snapshot held]
  pendingRides,   \* session state: [Drivers -> set of offered ride ids]
  call,           \* [Calls -> the controller call in that slot: awaiting or returned]
  scheduled_bookings, \* store: scheduled_bookings table, [Bookings -> row]
  notifications,  \* store: notifications table, a set of rows
  poll,           \* [Polls -> the load of the notification manager in that slot]
  missed,         \* [Drivers -> the missed-notification check in flight]
  scheduledBookings, \* screen state: [Drivers -> set of booking ids listed]
  completion,     \* the completionData of one completion: its inputs and fare
  error,          \* session state: [Drivers -> the message setError got, or "null"]
  authDriver,     \* manager state: [Drivers -> status of the driver setDriver gave]
  assignedScheduledBooking, \* session state: [Drivers -> NULL or a booking id]
  currentLocation,       \* location state: [Drivers -> NULL or the place last sampled]
  tripStartTime,         \* session state: [Drivers -> NULL or the time the trip began]
  tripStartLocation,     \* session state: [Drivers -> NULL or the place the trip began]
  totalDistanceTraveled, \* session state: [Drivers -> tenths of km accumulated]
  lastKnownLocation,     \* session state: [Drivers -> NULL or the place last counted]
  effect,         \* [Drivers -> a dependency of the distance effect has changed]
  runs,           \* [Drivers -> runs of the effect since the last outside change]
  samples,        \* [Drivers -> the places sampled since the pickup OTP was verified]
  sessionDriver,  \* the driver useAuth() gives the provider of the device: NULL or an id
  managerDriver,  \* manager state: the id of this.authDriver, or NULL
  realtimeChannel,    \* manager state: NULL, or the driver id its channels filter on
  managerInitialized, \* provider ref: initialize() has run and cleanup() has not
  assignedRide,   \* [Polls -> the answer to loadAssignedRide's select, not yet handled]
  isTracking,     \* location provider state: tracking has started
  locationSubscription, \* location provider state: NULL or the subscription held
  subscriptions,  \* the position watchers and update intervals that are active
  activation      \* [Calls -> the handleActiveDriver / startLocationTracking call]

vars == <<rides, driverStatus, live_locations, currentRide, pendingRides, call,
          scheduled_bookings, notifications, poll, missed, scheduledBookings,
          authDriver, assignedScheduledBooking, error, completion,
          currentLocation, tripStartTime, tripStartLocation, totalDistanceTraveled,
          lastKnownLocation, effect, runs, samples,
          sessionDriver, managerDriver, realtimeChannel, managerInitialized,
          assignedRide, isTracking, locationSubscription, subscriptions, activation>>
\* What the notification bridge and the scheduled trips screen keep.
bridge == <<notifications, poll, missed, scheduledBookings, authDriver,
            assignedScheduledBooking>>
\* What the notification manager of the device holds beside the bridge: the
\* realtime channels and what decides them, the answer of a select in flight.
manager == <<sessionDriver, managerDriver, realtimeChannel, managerInitialized,
             assignedRide>>
\* What the location provider of the device keeps, and its calls in flight.
provider == <<isTracking, locationSubscription, subscriptions, activation>>
\* What the trip tracker keeps, with the record of what it was given.
tracker == <<currentLocation, tripStartTime, tripStartLocation, totalDistanceTraveled,
             lastKnownLocation, effect, runs, samples>>
store == <<rides, driverStatus, live_locations>>
local == <<currentRide, pendingRides>>

\* A row of rides as the store creates it: requested, nobody assigned.
NewRide == [status |-> "requested", driver_id |-> NULL, pickup_otp |-> NULL,
            fare_amount |-> NULL, drop_otp |-> NULL, distance_km |-> NULL,
            duration_minutes |-> NULL, cancelled_by |-> NULL,
            cancellation_reason |-> NULL]

\* A scheduled booking the dispatcher has assigned to the first driver.
AssignedBooking == [status |-> "assigned", assigned_driver_id |-> 1,
                    pickup_otp |-> NULL]

\* The ride as a select() after an update returns it (what setCurrentRide gets).
Snapshot(r, row) == [id |-> r, status |-> row.status]
NoRide == [id |-> NULL, status |-> "none"]

\* A load or check of driver d.  `at` is the select it awaits, or "idle" when
\* it is not running; `op` and `why` tell the last load that ended and how;
\* `ids` are the ride ids a running one carries; `run` tells that the load is
\* one of a checkForNewRides call, which goes on with the next load.
Idle == [drv |-> NULL, op |-> "none", at |-> "idle", ids |-> {}, why |-> "none",
         run |-> FALSE]
Ended(d, op, why) ==
  [drv |-> d, op |-> op, at |-> "idle", ids |-> {}, why |-> why, run |-> FALSE]
Running(d, op, at, ids, run, why) ==
  [drv |-> d, op |-> op, at |-> at, ids |-> ids, why |-> why, run |-> run]

\* A row of notifications; `fresh` tells that created_at is not before the
\* lastNotificationCheck the missed-notification check compares with.
Notification(d, type, status, r, fresh) ==
  [user_id |-> d, type |-> type, status |-> status, ride_id |-> r, fresh |-> fresh]

\* A slot nobody has used yet.
NoCall == [drv |-> NULL, op |-> "none", at |-> "returned", ride |-> NULL,
           otp |-> NULL, fare |-> NULL, ok |-> FALSE, why |-> "none",
           distance |-> NULL, duration |-> NULL]

\* The call of slot k has returned (or the slot was never used).
Free(k) == call[k].at = "returned"

\* The call of slot k now awaits the store call named `at`.
Await(k, d, op, at, r, c, f) ==
  /\ call' = [call EXCEPT ![k] = [drv |-> d, op |-> op, at |-> at, ride |-> r,
                                  otp |-> c, fare |-> f, ok |-> FALSE, why |-> "none",
                                  distance |-> NULL, duration |-> NULL]]
  /\ UNCHANGED <<error, completion>>

\* The completeRide call of slot k now awaits the store call named `at`,
\* holding the actualDistance and actualDuration it computed on entry.
AwaitTrip(k, d, at, r, distance, duration, f) ==
  /\ call' = [call EXCEPT ![k] = [drv |-> d, op |-> "completeRide", at |-> at, ride |-> r,
                                  otp |-> NULL, fare |-> f, ok |-> FALSE, why |-> "none",
                                  distance |-> distance, duration |-> duration]]
  /\ UNCHANGED <<error, completion>>

\* The message the return statement `why` of operation op passes to setError
\* before it returns ("null": the path calls no setError); `first` tells that
\* the operation returns from its first store call.
Message(op, why, first) ==
  CASE op = "markDriverArrived" /\ why = "store_error" -> "Failed to update ride status"
    [] op = "generatePickupOTP" /\ why = "store_error" -> "Failed to generate OTP"
    [] op = "verifyPickupOTP" /\ why = "incorrect_otp" -> "Incorrect OTP"
    [] op = "verifyPickupOTP" /\ why = "store_error" /\ first -> "Failed to verify OTP"
    [] op = "verifyPickupOTP" /\ why = "store_error" /\ ~first -> "Failed to start ride"
    [] op = "startRide" /\ why = "store_error" -> "Failed to start ride"
    [] op = "generateDropOTP" /\ why = "store_error" -> "Failed to generate drop OTP"
    [] op = "completeRide" /\ why = "store_error" /\ first -> "Failed to fetch ride data"
    [] op = "completeRide" /\ why = "no_fare_matrix" ->
         "Fare calculation failed - no fare matrix found"
    [] op = "completeRide" /\ why = "store_error" /\ ~first -> "Failed to complete ride"
    [] op = "cancelRide" /\ why = "store_error" -> "Failed to cancel ride"
    [] op = "acceptScheduledBooking" /\ why = "store_error" ->
         "Failed to accept scheduled booking"
    [] op = "declineScheduledBooking" /\ why = "store_error" ->
         "Failed to decline scheduled booking"
    [] op = "P1_acceptRide" /\ why \in {"store_error", "taken"} -> "Failed to accept ride"
    [] op = "P1_verifyPickupOTP" /\ why \in {"store_error", "incorrect_otp"} -> "Invalid OTP"
    [] op = "P1_completeRide" /\ why = "store_error" -> "Failed to complete ride"
    [] op = "P1_cancelRide" /\ why = "store_error" -> "Failed to cancel ride"
    [] OTHER -> "null"
\* The call of slot k returns ok (true / false, or non-null / null); `why` is
\* the return statement taken.
Return(k, d, op, r, c, ok, why) ==
  /\ call' = [call EXCEPT ![k] = [drv |-> d, op |-> op, at |-> "returned", ride |-> r,
                                  otp |-> c, fare |-> NULL, ok |-> ok, why |-> why,
                                  distance |-> NULL, duration |-> NULL]]
  /\ error' = [error EXCEPT ![d] =
       IF Message(op, why, Free(k)) = "null" THEN @ ELSE Message(op, why, Free(k))]
  /\ UNCHANGED completion

\* verifyPickupOTP's start of the trip tracking: the start time, the start
\* location (null when no location is known), nothing travelled yet.
TrackingStart(d) ==
  /\ tripStartTime' = [tripStartTime EXCEPT ![d] = 1]
  /\ tripStartLocation' = [tripStartLocation EXCEPT ![d] = currentLocation[d]]
  /\ totalDistanceTraveled' = [totalDistanceTraveled EXCEPT ![d] = 0]
  /\ lastKnownLocation' = [lastKnownLocation EXCEPT ![d] = currentLocation[d]]
  /\ effect' = [effect EXCEPT ![d] = TRUE]
  /\ runs' = [runs EXCEPT ![d] = 0]
  /\ samples' = [samples EXCEPT ![d] =
       IF currentLocation[d] = NULL THEN <<>> ELSE <<currentLocation[d]>>]
  /\ UNCHANGED currentLocation

\* The reset of the trip tracking on completion and on cancellation.
TrackingReset(d) ==
  /\ tripStartTime' = [tripStartTime EXCEPT ![d] = NULL]
  /\ tripStartLocation' = [tripStartLocation EXCEPT ![d] = NULL]
  /\ totalDistanceTraveled' = [totalDistanceTraveled EXCEPT ![d] = 0]
  /\ lastKnownLocation' = [lastKnownLocation EXCEPT ![d] = NULL]
  /\ effect' = [effect EXCEPT ![d] = TRUE]
  /\ runs' = [runs EXCEPT ![d] = 0]
  /\ samples' = [samples EXCEPT ![d] = <<>>]
  /\ UNCHANGED currentLocation

\* A call of the location provider: `at` is what it awaits ("idle": no call
\* is running), `ok` what forceCreateLocationRecord returned to the call that
\* ran last, `upsert` how its upsert was answered.
Activation(d, at, ok, upsert) == [drv |-> d, at |-> at, ok |-> ok, upsert |-> upsert]
NoActivation == Activation(NULL, "idle", FALSE, "none")

\* No select of loadAssignedRide is in flight.
NoAnswer == [data |-> NoRide, error |-> FALSE]

InitSession ==
  /\ rides = [r \in Rides |-> NewRide]
  /\ driverStatus = [d \in Drivers |-> "online"]
  /\ live_locations = [d \in Drivers |-> FALSE]
  /\ currentRide = [d \in Drivers |-> NoRide]
  /\ pendingRides = [d \in Drivers |-> {}]
  /\ call = [k \in Calls |-> NoCall]
  /\ scheduled_bookings = [b \in Bookings |-> AssignedBooking]
  /\ notifications = {}
  /\ poll = [p \in Polls |-> Idle]
  /\ error = [d \in Drivers |-> "null"]
  /\ authDriver = [d \in Drivers |-> "online"]
  /\ assignedScheduledBooking = [d \in Drivers |-> NULL]
  /\ missed = [d \in Drivers |-> Idle]
  /\ scheduledBookings = [d \in Drivers |-> {}]
  /\ currentLocation = [d \in Drivers |-> NULL]
  /\ tripStartTime = [d \in Drivers |-> NULL]
  /\ tripStartLocation = [d \in Drivers |-> NULL]
  /\ totalDistanceTraveled = [d \in Drivers |-> 0]
  /\ lastKnownLocation = [d \in Drivers |-> NULL]
  /\ effect = [d \in Drivers |-> FALSE]
  /\ runs = [d \in Drivers |-> 0]
  /\ samples = [d \in Drivers |-> <<>>]
  /\ sessionDriver = NULL
  /\ managerDriver = NULL
  /\ realtimeChannel = NULL
  /\ managerInitialized = FALSE
  /\ assignedRide = [p \in Polls |-> NoAnswer]
  /\ isTracking = FALSE
  /\ locationSubscription = NULL
  /\ subscriptions = {}
  /\ activation = [k \in Calls |-> NoActivation]

\* The state after construction: nothing is being completed.
Init ==
  /\ InitSession
  /\ completion = CompletionInput("regular", DefaultDistance, DefaultDuration, 720, 0,
                                  FareRow(fare_matrix.base_fare, fare_matrix.per_km_rate,
                                          fare_matrix.per_minute_rate,
                                          fare_matrix.platform_fee_percent,
                                          fare_matrix.minimum_fare, 0, 0, 0, 0, 0, 0, 0, 0, 0))

\* A session in which a trip is about to be completed.
InitFare ==
  /\ InitSession
  /\ completion \in RegularCompletions \cup RentalCompletions
                      \cup OutstationCompletions \cup AirportCompletions

\* ------------------------------------------------------------- acceptRide
\* (mutation) the update filtered on the id alone, as every other update of the
\* controller is.
AcceptMatches_idOnly(r) == r \in Rides

\* The filter of acceptRide's update: id = r and status = 'requested' and
\* driver_id is null.
AcceptMatches(r) == rides[r].status = "requested" /\ rides[r].driver_id = NULL

\* (mutation) location sharing is started before the profile is checked.
acceptRide_sharingFirst(k, d, r) ==
  /\ Free(k)
  /\ live_locations' = [live_locations EXCEPT ![d] = TRUE]
  /\ \E profile \in DriverProfiles :
       IF profile = "complete"
       THEN Await(k, d, "acceptRide", "update", r, NULL, NULL)
       ELSE Return(k, d, "acceptRide", r, NULL, FALSE, profile)
  /\ UNCHANGED <<rides, driverStatus, local, scheduled_bookings, bridge, tracker, manager, provider>>

\* acceptRide up to its conditional update: the profile check, then
\* startLocationSharing (false when no location is known, or when the upsert,
\* the insert and the update of live_locations all fail).
acceptRide(k, d, r) ==
  /\ Free(k)
  /\ \E profile \in DriverProfiles :
       IF profile = "complete"
       THEN \E sharing \in BOOLEAN :
              IF sharing
              THEN /\ live_locations' = [live_locations EXCEPT ![d] = TRUE]
                   /\ Await(k, d, "acceptRide", "update", r, NULL, NULL)
              ELSE /\ Return(k, d, "acceptRide", r, NULL, FALSE, "location")
                   /\ UNCHANGED live_locations
       ELSE /\ Return(k, d, "acceptRide", r, NULL, FALSE, profile)
            /\ UNCHANGED live_locations
  /\ UNCHANGED <<rides, driverStatus, local, scheduled_bookings, bridge, tracker, manager, provider>>

\* (mutation) the failed update also drops the ride the session holds, as the
\* failed read of loadAssignedRide does.
acceptRide_taken_clearing(k, why) ==
  /\ Return(k, call[k].drv, "acceptRide", call[k].ride, NULL, FALSE, why)
  /\ currentRide' = [currentRide EXCEPT ![call[k].drv] = NoRide]
  /\ UNCHANGED <<rides, driverStatus, pendingRides>>

\* acceptRide when its update gave an error (PGRST116: no row matched) or no
\* row: false, nothing else.
acceptRide_taken(k, why) ==
  /\ Return(k, call[k].drv, "acceptRide", call[k].ride, NULL, FALSE, why)
  /\ UNCHANGED <<rides, driverStatus, local>>

\* Step 3 of acceptRide: the conditional update with .single().
acceptRide_update(k) ==
  LET d == call[k].drv
      r == call[k].ride
  IN  /\ call[k].op = "acceptRide" /\ call[k].at = "update"
      /\ \E answered \in BOOLEAN :
           IF ~answered THEN acceptRide_taken(k, "store_error")
           ELSE IF ~AcceptMatches(r) THEN acceptRide_taken(k, "taken")
           ELSE /\ rides' = [rides EXCEPT ![r].status = "accepted", ![r].driver_id = d]
                /\ Await(k, d, "acceptRide", "status", r, NULL, NULL)
                /\ UNCHANGED <<driverStatus, local>>
      /\ UNCHANGED <<live_locations, scheduled_bookings, bridge, tracker, manager, provider>>

\* Steps 4 and 5 of acceptRide: updateDriverStatus('busy'), whose failure is
\* caught and ignored, then the session state, then true.
acceptRide_status(k) ==
  LET d == call[k].drv
      r == call[k].ride
  IN  /\ call[k].op = "acceptRide" /\ call[k].at = "status"
      /\ \E answered \in BOOLEAN :
           driverStatus' = IF answered THEN [driverStatus EXCEPT ![d] = "busy"]
                           ELSE driverStatus
      /\ currentRide' = [currentRide EXCEPT ![d] = [id |-> r, status |-> "accepted"]]
      /\ pendingRides' = [pendingRides EXCEPT ![d] = @ \ {r}]
      /\ Return(k, d, "acceptRide", r, NULL, TRUE, "ok")
      /\ UNCHANGED <<rides, live_locations, scheduled_bookings, bridge, tracker, manager, provider>>

\* part_001: the conditional update, and on success the session state.
P1_acceptRide(k, d, r) ==
  /\ Free(k)
  /\ \E answered \in BOOLEAN :
       IF ~answered
       THEN /\ Return(k, d, "P1_acceptRide", r, NULL, FALSE, "store_error")
            /\ UNCHANGED <<rides, local>>
       ELSE IF ~AcceptMatches(r)
       THEN /\ Return(k, d, "P1_acceptRide", r, NULL, FALSE, "taken")
            /\ UNCHANGED <<rides, local>>
       ELSE /\ rides' = [rides EXCEPT ![r].status = "accepted", ![r].driver_id = d]
            /\ currentRide' = [currentRide EXCEPT ![d] = [id |-> r, status |-> "accepted"]]
            /\ pendingRides' = [pendingRides EXCEPT ![d] = @ \ {r}]
            /\ Await(k, d, "P1_acceptRide", "status", r, NULL, NULL)
  /\ UNCHANGED <<driverStatus, live_locations, scheduled_bookings, bridge, tracker, manager, provider>>

\* part_001: the update of drivers.status to busy (its result is not read).
P1_acceptRide_status(k) ==
  LET d == call[k].drv
      r == call[k].ride
  IN  /\ call[k].op = "P1_acceptRide" /\ call[k].at = "status"
      /\ \E answered \in BOOLEAN :
           driverStatus' = IF answered THEN [driverStatus EXCEPT ![d] = "busy"]
                           ELSE driverStatus
      /\ Return(k, d, "P1_acceptRide", r, NULL, TRUE, "ok")
      /\ UNCHANGED <<rides, live_locations, local, scheduled_bookings, bridge, tracker, manager, provider>>

\* ------------------------------------------------------- markDriverArrived
\* One update of rides filtered on the id alone (part_001's is the same call).
markDriverArrived(k, d, r) ==
  /\ Free(k)
  /\ \E answered \in BOOLEAN :
       IF answered
       THEN /\ rides' = [rides EXCEPT ![r].status = "driver_arrived"]
            /\ currentRide' = [currentRide EXCEPT ![d] = Snapshot(r, rides'[r])]
            /\ Return(k, d, "markDriverArrived", r, NULL, TRUE, "ok")
       ELSE /\ Return(k, d, "markDriverArrived", r, NULL, FALSE, "store_error")
            /\ UNCHANGED <<rides, currentRide>>
  /\ UNCHANGED <<driverStatus, live_locations, pendingRides, scheduled_bookings, bridge, tracker, manager, provider>>

\* ------------------------------------------------------------- pickup OTP
\* Math.floor(1000 + Math.random() * 9000), stored on the ride by an update
\* filtered on the id alone; returns the code, or null when the update failed.
generatePickupOTP(k, d, r) ==
  /\ Free(k)
  /\ \E otp \in Otps, answered \in BOOLEAN :
       IF answered
       THEN /\ rides' = [rides EXCEPT ![r].pickup_otp = otp]
            /\ Return(k, d, "generatePickupOTP", r, otp, TRUE, "ok")
       ELSE /\ Return(k, d, "generatePickupOTP", r, NULL, FALSE, "store_error")
            /\ UNCHANGED rides
  /\ UNCHANGED <<driverStatus, live_locations, local, scheduled_bookings, bridge, tracker, manager, provider>>

\* (mutation) a comparison that lets a row without a code through.
OtpMismatch_nullPasses(stored, otp) == stored # NULL /\ stored # otp

\* ride.pickup_otp !== otp, on the row verifyPickupOTP has read (and
\* booking.pickup_otp !== otp in handleOTPVerification).  The code entered is
\* a string, never null.
OtpMismatch(stored, otp) == stored # otp

\* verifyPickupOTP up to its update: the select of pickup_otp and the
\* comparison with the code entered.
verifyPickupOTP(k, d, r, otp) ==
  /\ Free(k)
  /\ \E answered \in BOOLEAN :
       IF ~answered
       THEN Return(k, d, "verifyPickupOTP", r, otp, FALSE, "store_error")
       ELSE IF OtpMismatch(rides[r].pickup_otp, otp)
       THEN Return(k, d, "verifyPickupOTP", r, otp, FALSE, "incorrect_otp")
       ELSE Await(k, d, "verifyPickupOTP", "update", r, otp, NULL)
  /\ UNCHANGED <<store, local, scheduled_bookings, bridge, tracker, manager, provider>>

\* verifyPickupOTP's update, filtered on the id alone: in_progress, the code
\* cleared; then the session state.
verifyPickupOTP_update(k) ==
  LET d == call[k].drv
      r == call[k].ride
  IN  /\ call[k].op = "verifyPickupOTP" /\ call[k].at = "update"
      /\ \E answered \in BOOLEAN :
           IF answered
           THEN /\ rides' = [rides EXCEPT ![r].status = "in_progress",
                                          ![r].pickup_otp = NULL]
                /\ currentRide' = [currentRide EXCEPT ![d] = Snapshot(r, rides'[r])]
                /\ TrackingStart(d)
                /\ Return(k, d, "verifyPickupOTP", r, call[k].otp, TRUE, "ok")
           ELSE /\ Return(k, d, "verifyPickupOTP", r, call[k].otp, FALSE, "store_error")
                /\ UNCHANGED <<rides, currentRide, tracker>>
      /\ UNCHANGED <<driverStatus, live_locations, pendingRides, scheduled_bookings, bridge, manager, provider>>

\* part_001: the filter id = r and pickup_otp = otp of its one update (in SQL
\* a null pickup_otp equals nothing).
P1_OtpMatches(r, otp) == rides[r].pickup_otp # NULL /\ rides[r].pickup_otp = otp

\* part_001: one conditional update; no row (the error of .single()) and a
\* store error both return false.
P1_verifyPickupOTP(k, d, r, otp) ==
  /\ Free(k)
  /\ \E answered \in BOOLEAN :
       IF ~answered
       THEN /\ Return(k, d, "P1_verifyPickupOTP", r, otp, FALSE, "store_error")
            /\ UNCHANGED <<rides, currentRide>>
       ELSE IF ~P1_OtpMatches(r, otp)
       THEN /\ Return(k, d, "P1_verifyPickupOTP", r, otp, FALSE, "incorrect_otp")
            /\ UNCHANGED <<rides, currentRide>>
       ELSE /\ rides' = [rides EXCEPT ![r].status = "in_progress",
                                      ![r].pickup_otp = NULL]
            /\ currentRide' = [currentRide EXCEPT ![d] = Snapshot(r, rides'[r])]
            /\ Return(k, d, "P1_verifyPickupOTP", r, otp, TRUE, "ok")
  /\ UNCHANGED <<driverStatus, live_locations, pendingRides, scheduled_bookings, bridge, tracker, manager, provider>>

\* -------------------------------------------------------------- startRide
\* One update of rides filtered on the id alone (part_001's is the same call).
startRide(k, d, r) ==
  /\ Free(k)
  /\ \E answered \in BOOLEAN :
       IF answered
       THEN /\ rides' = [rides EXCEPT ![r].status = "in_progress"]
            /\ currentRide' = [currentRide EXCEPT ![d] = Snapshot(r, rides'[r])]
            /\ Return(k, d, "startRide", r, NULL, TRUE, "ok")
       ELSE /\ Return(k, d, "startRide", r, NULL, FALSE, "store_error")
            /\ UNCHANGED <<rides, currentRide>>
  /\ UNCHANGED <<driverStatus, live_locations, pendingRides, scheduled_bookings, bridge, tracker, manager, provider>>

\* ---------------------------------------------------------------- drop OTP
\* generateDropOTP: the code stored on the ride by an update filtered on the id
\* alone; returns the code, or null when the update failed (part_001's is the
\* same call).
generateDropOTP(k, d, r) ==
  /\ Free(k)
  /\ \E otp \in Otps, answered \in BOOLEAN :
       IF answered
       THEN /\ rides' = [rides EXCEPT ![r].drop_otp = otp]
            /\ Return(k, d, "generateDropOTP", r, otp, TRUE, "ok")
       ELSE /\ Return(k, d, "generateDropOTP", r, NULL, FALSE, "store_error")
            /\ UNCHANGED rides
  /\ UNCHANGED <<driverStatus, live_locations, local, scheduled_bookings, bridge, tracker, manager, provider>>

\* ----------------------------------------------------------- completeRide
\* completeRide up to its update: the select of the ride and of the active
\* fare_matrix row (rows no operation changes), and the fare.
completeRide(k, d, r) ==
  /\ Free(k)
  /\ \E actualDuration \in IF tripStartTime[d] = NULL THEN {DefaultDuration} ELSE Minutes :
       LET actualDistance == IF totalDistanceTraveled[d] > 0
                             THEN totalDistanceTraveled[d] ELSE DefaultDistance
       IN  \E answered \in BOOLEAN :
             IF answered
             THEN AwaitTrip(k, d, "fare_matrix", r, actualDistance, actualDuration, NULL)
             ELSE Return(k, d, "completeRide", r, NULL, FALSE, "store_error")
  /\ UNCHANGED <<store, local, scheduled_bookings, bridge, tracker, manager, provider>>

\* completeRide's read of the fare rule: none found, or the fare computed
\* from it and the update awaited.
completeRide_fare_matrix(k) ==
  LET d == call[k].drv
      r == call[k].ride
  IN  /\ call[k].op = "completeRide" /\ call[k].at = "fare_matrix"
      /\ \E answered \in BOOLEAN :
           IF answered
           THEN AwaitTrip(k, d, "update", r, call[k].distance, call[k].duration,
                          totalFare(call[k].distance, call[k].duration, fare_matrix))
           ELSE Return(k, d, "completeRide", r, NULL, FALSE, "no_fare_matrix")
      /\ UNCHANGED <<store, local, scheduled_bookings, bridge, tracker, manager, provider>>

\* completeRide with the trip tracking reset before the result of the update
\* is read: what completeRide's update is not.
completeRide_update_resetting(k) ==
  LET d == call[k].drv
      r == call[k].ride
  IN  /\ call[k].op = "completeRide" /\ call[k].at = "update"
      /\ \E answered \in BOOLEAN :
           IF answered
           THEN /\ rides' = [rides EXCEPT ![r].status = "completed",
                                          ![r].fare_amount = call[k].fare,
                                          ![r].distance_km = call[k].distance,
                                          ![r].duration_minutes = call[k].duration]
                /\ Await(k, d, "completeRide", "driver", r, NULL, NULL)
                /\ UNCHANGED tracker
           ELSE /\ Return(k, d, "completeRide", r, NULL, FALSE, "store_error")
                /\ TrackingReset(d)
                /\ UNCHANGED rides
      /\ UNCHANGED <<driverStatus, live_locations, local, scheduled_bookings, bridge, manager, provider>>

\* completeRide's update, filtered on the id alone: completed, the fare.
completeRide_update(k) ==
  LET d == call[k].drv
      r == call[k].ride
  IN  /\ call[k].op = "completeRide" /\ call[k].at = "update"
      /\ \E answered \in BOOLEAN :
           IF answered
           THEN /\ rides' = [rides EXCEPT ![r].status = "completed",
                                          ![r].fare_amount = call[k].fare,
                                          ![r].distance_km = call[k].distance,
                                          ![r].duration_minutes = call[k].duration]
                /\ Await(k, d, "completeRide", "driver", r, NULL, NULL)
           ELSE /\ Return(k, d, "completeRide", r, NULL, FALSE, "store_error")
                /\ UNCHANGED rides
      /\ UNCHANGED <<driverStatus, live_locations, local, scheduled_bookings, bridge, tracker, manager, provider>>

\* completeRide after its update: drivers.status online (the result is not
\* read), the current ride dropped, success.
completeRide_driver(k) ==
  LET d == call[k].drv
      r == call[k].ride
  IN  /\ call[k].op = "completeRide" /\ call[k].at = "driver"
      /\ \E answered \in BOOLEAN :
           driverStatus' = IF answered THEN [driverStatus EXCEPT ![d] = "online"]
                           ELSE driverStatus
      /\ currentRide' = [currentRide EXCEPT ![d] = NoRide]
      /\ Return(k, d, "completeRide", r, NULL, TRUE, "ok")
      /\ TrackingReset(d)
      /\ UNCHANGED <<rides, live_locations, pendingRides, scheduled_bookings, bridge, manager, provider>>

\* part_001: one update filtered on the id alone (completed, the drop OTP
\* cleared; no fare is written), then the current ride dropped.
P1_completeRide(k, d, r) ==
  /\ Free(k)
  /\ \E answered \in BOOLEAN :
       IF answered
       THEN /\ rides' = [rides EXCEPT ![r].status = "completed",
                                      ![r].drop_otp = NULL]
            /\ currentRide' = [currentRide EXCEPT ![d] = NoRide]
            /\ Await(k, d, "P1_completeRide", "driver", r, NULL, NULL)
       ELSE /\ Return(k, d, "P1_completeRide", r, NULL, FALSE, "store_error")
            /\ UNCHANGED <<rides, currentRide>>
  /\ UNCHANGED <<driverStatus, live_locations, pendingRides, scheduled_bookings, bridge, tracker, manager, provider>>

\* part_001: drivers.status online (the result is not read), success.
P1_completeRide_driver(k) ==
  LET d == call[k].drv
      r == call[k].ride
  IN  /\ call[k].op = "P1_completeRide" /\ call[k].at = "driver"
      /\ \E answered \in BOOLEAN :
           driverStatus' = IF answered THEN [driverStatus EXCEPT ![d] = "online"]
                           ELSE driverStatus
      /\ Return(k, d, "P1_completeRide", r, NULL, TRUE, "ok")
      /\ UNCHANGED <<rides, live_locations, local, scheduled_bookings, bridge, tracker, manager, provider>>

\* ------------------------------------------------------------- cancelRide
\* cancelRide's update, filtered on the id alone: cancelled, the driver's
\* user and the reason recorded.
cancelRide(k, d, r) ==
  /\ Free(k)
  /\ \E answered \in BOOLEAN, reason \in Reasons :
       IF answered
       THEN /\ rides' = [rides EXCEPT ![r].status = "cancelled",
                                      ![r].cancelled_by = d,
                                      ![r].cancellation_reason = reason]
            /\ Await(k, d, "cancelRide", "driver", r, NULL, NULL)
       ELSE /\ Return(k, d, "cancelRide", r, NULL, FALSE, "store_error")
            /\ UNCHANGED rides
  /\ UNCHANGED <<driverStatus, live_locations, local, scheduled_bookings, bridge, tracker, manager, provider>>

\* cancelRide after its update: drivers.status online (the result is not
\* read), the current ride dropped, true.
cancelRide_driver(k) ==
  LET d == call[k].drv
      r == call[k].ride
  IN  /\ call[k].op = "cancelRide" /\ call[k].at = "driver"
      /\ \E answered \in BOOLEAN :
           driverStatus' = IF answered THEN [driverStatus EXCEPT ![d] = "online"]
                           ELSE driverStatus
      /\ currentRide' = [currentRide EXCEPT ![d] = NoRide]
      /\ Return(k, d, "cancelRide", r, NULL, TRUE, "ok")
      /\ TrackingReset(d)
      /\ UNCHANGED <<rides, live_locations, pendingRides, scheduled_bookings, bridge, manager, provider>>

\* part_001: the same update, then the current ride dropped.
P1_cancelRide(k, d, r) ==
  /\ Free(k)
  /\ \E answered \in BOOLEAN, reason \in Reasons :
       IF answered
       THEN /\ rides' = [rides EXCEPT ![r].status = "cancelled",
                                      ![r].cancelled_by = d,
                                      ![r].cancellation_reason = reason]
            /\ currentRide' = [currentRide EXCEPT ![d] = NoRide]
            /\ Await(k, d, "P1_cancelRide", "driver", r, NULL, NULL)
       ELSE /\ Return(k, d, "P1_cancelRide", r, NULL, FALSE, "store_error")
            /\ UNCHANGED <<rides, currentRide>>
  /\ UNCHANGED <<driverStatus, live_locations, pendingRides, scheduled_bookings, bridge, tracker, manager, provider>>

\* part_001: drivers.status online (the result is not read), true.
P1_cancelRide_driver(k) ==
  LET d == call[k].drv
      r == call[k].ride
  IN  /\ call[k].op = "P1_cancelRide" /\ call[k].at = "driver"
      /\ \E answered \in BOOLEAN :
           driverStatus' = IF answered THEN [driverStatus EXCEPT ![d] = "online"]
                           ELSE driverStatus
      /\ Return(k, d, "P1_cancelRide", r, NULL, TRUE, "ok")
      /\ UNCHANGED <<rides, live_locations, local, scheduled_bookings, bridge, tracker, manager, provider>>

\* ------------------------------------- scheduled bookings: the pickup OTP
\* ScheduledTripsScreen.handleGeneratePickupOTP: the code stored by an update
\* filtered on the id and on assigned_driver_id = the driver; no row (the error
\* of .single()) and a store error both end the handler with an alert.
handleGeneratePickupOTP(k, d, b) ==
  /\ Free(k)
  /\ \E otp \in Otps, answered \in BOOLEAN :
       IF answered /\ scheduled_bookings[b].assigned_driver_id = d
       THEN /\ scheduled_bookings' = [scheduled_bookings EXCEPT ![b].pickup_otp = otp]
            /\ Return(k, d, "handleGeneratePickupOTP", b, otp, TRUE, "ok")
       ELSE /\ Return(k, d, "handleGeneratePickupOTP", b, NULL, FALSE, "store_error")
            /\ UNCHANGED scheduled_bookings
  /\ UNCHANGED <<store, local, bridge, tracker, manager, provider>>

\* ScheduledTripsScreen.handleOTPVerification up to its update (b is
\* currentBookingId, without which the handler does nothing): the select of
\* pickup_otp and status, and the comparison with the code entered.
handleOTPVerification(k, d, b, otp) ==
  /\ Free(k)
  /\ \E answered \in BOOLEAN :
       IF ~answered
       THEN Return(k, d, "handleOTPVerification", b, otp, FALSE, "store_error")
       ELSE IF OtpMismatch(scheduled_bookings[b].pickup_otp, otp)
       THEN Return(k, d, "handleOTPVerification", b, otp, FALSE, "incorrect_otp")
       ELSE Await(k, d, "handleOTPVerification", "update", b, otp, NULL)
  /\ UNCHANGED <<store, local, scheduled_bookings, bridge, tracker, manager, provider>>

\* handleOTPVerification's update, filtered on the id alone: in_progress, the
\* code cleared.
handleOTPVerification_update(k) ==
  LET d == call[k].drv
      b == call[k].ride
  IN  /\ call[k].op = "handleOTPVerification" /\ call[k].at = "update"
      /\ \E answered \in BOOLEAN :
           IF answered
           THEN /\ scheduled_bookings' =
                     [scheduled_bookings EXCEPT ![b].status = "in_progress",
                                                ![b].pickup_otp = NULL]
                /\ Await(k, d, "handleOTPVerification", "status", b, call[k].otp, NULL)
           ELSE /\ Return(k, d, "handleOTPVerification", b, call[k].otp, FALSE,
                          "store_error")
                /\ UNCHANGED scheduled_bookings
      /\ UNCHANGED <<store, local, bridge, tracker, manager, provider>>

\* handleOTPVerification after its update: updateDriverStatus('busy'), then
\* the success alert.
handleOTPVerification_status(k) ==
  LET d == call[k].drv
      b == call[k].ride
  IN  /\ call[k].op = "handleOTPVerification" /\ call[k].at = "status"
      /\ \E answered \in BOOLEAN :
           driverStatus' = IF answered THEN [driverStatus EXCEPT ![d] = "busy"]
                           ELSE driverStatus
      /\ Return(k, d, "handleOTPVerification", b, call[k].otp, TRUE, "ok")
      /\ UNCHANGED <<rides, live_locations, local, scheduled_bookings, bridge, tracker, manager, provider>>

\* ------------------------------- scheduled bookings: accept and decline
\* acceptScheduledBooking of the controller: one update, filtered on the id
\* alone, that names the driver and sets accepted; the row it returns goes to
\* setAssignedScheduledBooking.
acceptScheduledBooking(k, d, b) ==
  /\ Free(k)
  /\ \E answered \in BOOLEAN :
       IF answered
       THEN /\ scheduled_bookings' =
                 [scheduled_bookings EXCEPT ![b].assigned_driver_id = d,
                                            ![b].status = "accepted"]
            /\ assignedScheduledBooking' = [assignedScheduledBooking EXCEPT ![d] = b]
            /\ Return(k, d, "acceptScheduledBooking", b, NULL, TRUE, "ok")
       ELSE /\ Return(k, d, "acceptScheduledBooking", b, NULL, FALSE, "store_error")
            /\ UNCHANGED <<scheduled_bookings, assignedScheduledBooking>>
  /\ UNCHANGED <<store, local, notifications, poll, missed, scheduledBookings, authDriver,
                 tracker, manager, provider>>

\* declineScheduledBooking of the controller: one update, filtered on the id
\* alone, that names no driver and sets pending.
declineScheduledBooking(k, d, b) ==
  /\ Free(k)
  /\ \E answered \in BOOLEAN :
       IF answered
       THEN /\ scheduled_bookings' =
                 [scheduled_bookings EXCEPT ![b].assigned_driver_id = NULL,
                                            ![b].status = "pending"]
            /\ assignedScheduledBooking' = [assignedScheduledBooking EXCEPT ![d] = NULL]
            /\ Return(k, d, "declineScheduledBooking", b, NULL, TRUE, "ok")
       ELSE /\ Return(k, d, "declineScheduledBooking", b, NULL, FALSE, "store_error")
            /\ UNCHANGED <<scheduled_bookings, assignedScheduledBooking>>
  /\ UNCHANGED <<store, local, notifications, poll, missed, scheduledBookings, authDriver,
                 tracker, manager, provider>>

\* The select of loadScheduledBookings and what follows it: the bookings
\* assigned to the driver that are not over, or none after an error.
ScheduledBookingsLoaded(d) ==
  \E answered \in BOOLEAN :
    scheduledBookings' = [scheduledBookings EXCEPT ![d] =
      IF answered
      THEN {b \in Bookings : /\ scheduled_bookings[b].assigned_driver_id = d
                             /\ scheduled_bookings[b].status \in
                                  {"assigned", "confirmed", "driver_arrived",
                                   "in_progress"}}
      ELSE {}]

\* handleAcceptBooking of the screen up to its update: the select of the
\* booking.
handleAcceptBooking(k, d, b) ==
  /\ Free(k)
  /\ \E answered \in BOOLEAN :
       IF answered
       THEN Await(k, d, "handleAcceptBooking", "update", b, NULL, NULL)
       ELSE Return(k, d, "handleAcceptBooking", b, NULL, FALSE, "store_error")
  /\ UNCHANGED <<store, local, scheduled_bookings, bridge, tracker, manager, provider>>

\* handleAcceptBooking's update, filtered on the id and on the driver the
\* booking is assigned to (single(): no row is an error): confirmed.
handleAcceptBooking_update(k) ==
  LET d == call[k].drv
      b == call[k].ride
  IN  /\ call[k].op = "handleAcceptBooking" /\ call[k].at = "update"
      /\ \E answered \in BOOLEAN :
           IF answered /\ scheduled_bookings[b].assigned_driver_id = d
           THEN /\ scheduled_bookings' =
                     [scheduled_bookings EXCEPT ![b].status = "confirmed"]
                /\ Await(k, d, "handleAcceptBooking", "load", b, NULL, NULL)
           ELSE /\ Return(k, d, "handleAcceptBooking", b, NULL, FALSE, "store_error")
                /\ UNCHANGED scheduled_bookings
      /\ UNCHANGED <<store, local, bridge, tracker, manager, provider>>

\* handleDeclineBooking of the screen, once the driver has confirmed: the
\* update, filtered on the id alone: cancelled.
handleDeclineBooking(k, d, b) ==
  /\ Free(k)
  /\ \E answered \in BOOLEAN :
       IF answered
       THEN /\ scheduled_bookings' =
                 [scheduled_bookings EXCEPT ![b].status = "cancelled"]
            /\ Await(k, d, "handleDeclineBooking", "load", b, NULL, NULL)
       ELSE /\ Return(k, d, "handleDeclineBooking", b, NULL, FALSE, "store_error")
            /\ UNCHANGED scheduled_bookings
  /\ UNCHANGED <<store, local, bridge, tracker, manager, provider>>

\* The loadScheduledBookings that ends handleAcceptBooking and
\* handleDeclineBooking.
handleBooking_load(k) ==
  LET d == call[k].drv
      b == call[k].ride
  IN  /\ call[k].op \in {"handleAcceptBooking", "handleDeclineBooking"}
      /\ call[k].at = "load"
      /\ ScheduledBookingsLoaded(d)
      /\ Return(k, d, call[k].op, b, NULL, TRUE, "ok")
      /\ UNCHANGED <<store, local, scheduled_bookings, notifications, poll, missed,
                     authDriver, assignedScheduledBooking, tracker, manager, provider>>

\* ---------------------------------------------------------- declineRide
\* The ride_request notifications of driver d that reference ride r.
Requests(d, r) ==
  {n \in notifications : n.user_id = d /\ n.type = "ride_request" /\ n.ride_id = r}

\* The notifications with the given ones set to `status`.
Marked(ns, status) ==
  (notifications \ ns) \cup {[n EXCEPT !.status = status] : n \in ns}

\* (mutation) a decline that also withdraws the ride for everybody.
declineRide_cancelling(k, d, r) ==
  /\ Free(k)
  /\ rides' = [rides EXCEPT ![r].status = "cancelled"]
  /\ Await(k, d, "declineRide", "insert", r, NULL, NULL)
  /\ UNCHANGED <<driverStatus, live_locations, local, scheduled_bookings, bridge, tracker, manager, provider>>

\* declineRide up to its insert: the driver's ride_request notifications of
\* the ride set to cancelled; an error of this update is only logged.
declineRide(k, d, r) ==
  /\ Free(k)
  /\ \E answered \in BOOLEAN :
       notifications' = IF answered THEN Marked(Requests(d, r), "cancelled")
                        ELSE notifications
  /\ Await(k, d, "declineRide", "insert", r, NULL, NULL)
  /\ UNCHANGED <<store, local, scheduled_bookings, poll, missed, scheduledBookings, authDriver,
                 assignedScheduledBooking, tracker, manager, provider>>

\* declineRide's insert of the ride_declined record (an error is only logged),
\* then the ride taken out of the pending rides, then true.
declineRide_insert(k) ==
  LET d == call[k].drv
      r == call[k].ride
  IN  /\ call[k].op = "declineRide" /\ call[k].at = "insert"
      /\ \E answered \in BOOLEAN :
           notifications' =
             IF answered
             THEN notifications \cup {Notification(d, "ride_declined", "read", r, FALSE)}
             ELSE notifications
      /\ pendingRides' = [pendingRides EXCEPT ![d] = @ \ {r}]
      /\ Return(k, d, "declineRide", r, NULL, TRUE, "ok")
      /\ UNCHANGED <<store, currentRide, scheduled_bookings, poll, missed,
                     scheduledBookings, authDriver, assignedScheduledBooking, tracker, manager, provider>>

\* part_001: the ride taken out of the pending rides, the notifications of the
\* ride set to read (the result is not read), then true.
P1_declineRide(k, d, r) ==
  /\ Free(k)
  /\ pendingRides' = [pendingRides EXCEPT ![d] = @ \ {r}]
  /\ \E answered \in BOOLEAN :
       notifications' = IF answered THEN Marked(Requests(d, r), "read")
                        ELSE notifications
  /\ Return(k, d, "P1_declineRide", r, NULL, TRUE, "ok")
  /\ UNCHANGED <<store, currentRide, scheduled_bookings, poll, missed,
                 scheduledBookings, authDriver, assignedScheduledBooking, tracker, manager, provider>>

\* ------------------------------------------------- the notification bridge
\* The dispatcher (the notify-drivers function) offers ride r to driver d: an
\* unread ride_request notification.
notifyDriver(d, r) ==
  /\ Notification(d, "ride_request", "unread", r, TRUE) \notin notifications
  /\ notifications' = notifications \cup
                        {Notification(d, "ride_request", "unread", r, TRUE)}
  /\ UNCHANGED <<store, local, call, error, completion, tracker, scheduled_bookings, poll, missed,
                 scheduledBookings, authDriver, assignedScheduledBooking, manager, provider>>

\* (mutation) only the rides no session lists yet are kept.
Offered_unseen(ids) ==
  {r \in ids : /\ rides[r].status = "requested" /\ rides[r].driver_id = NULL
               /\ \A d \in Drivers : r \notin pendingRides[d]}

\* The rides the selects of the bridge keep: requested and without a driver.
Offered(ids) == {r \in ids : rides[r].status = "requested" /\ rides[r].driver_id = NULL}

\* The ride loadAssignedRide finds: the latest of the driver's rides that are
\* accepted, driver_arrived or in_progress (ids grow with created_at).
AssignedRide(d) ==
  LET mine == {r \in Rides : rides[r].driver_id = d
                              /\ rides[r].status \in {"accepted", "driver_arrived",
                                                     "in_progress"}}
  IN  IF mine = {} THEN NoRide
      ELSE LET r == CHOOSE x \in mine : \A y \in mine : y <= x
           IN  Snapshot(r, rides[r])

\* The load in slot p, of driver d, has ended with `why`: a load of a
\* checkForNewRides call is followed by the next one (loadPendingRides only
\* for a driver the manager knows as online), any other leaves the slot idle.
Proceed(p, d, op, why) ==
  poll' = [poll EXCEPT ![p] =
    IF ~poll[p].run THEN Ended(d, op, why)
    ELSE IF op = "loadAssignedRide" /\ authDriver[d] = "online"
    THEN Running(d, op, "notifications", {}, TRUE, why)
    ELSE IF op \in {"loadAssignedRide", "loadPendingRides"}
    THEN Running(d, op, "booking", {}, TRUE, why)
    ELSE Ended(d, op, why)]

\* The select of loadAssignedRide and what follows it: its result, or null
\* after a query error or a thrown error, goes to setCurrentRide.
AssignedRideLoaded(d) ==
  \E answered \in BOOLEAN :
    IF answered
    THEN currentRide' = [currentRide EXCEPT ![d] = AssignedRide(d)]
    ELSE currentRide' = [currentRide EXCEPT ![d] = NoRide]

\* loadAssignedRide called by itself (handleRideUpdate, on a row change of one
\* of the driver's rides).
loadAssignedRide(p, d) ==
  /\ poll[p].at = "idle"
  /\ AssignedRideLoaded(d)
  /\ poll' = [poll EXCEPT ![p] =
       Ended(d, "loadAssignedRide",
             IF currentRide'[d] = AssignedRide(d) THEN "ok" ELSE "store_error")]
  /\ UNCHANGED <<store, pendingRides, call, error, completion, tracker, scheduled_bookings, notifications,
                 missed, scheduledBookings, authDriver, assignedScheduledBooking, manager, provider>>

\* checkForNewRides (the 10 and 15 second timers, refreshRides, a change of
\* the driver) up to its second select: nothing while the driver is loading,
\* missing or offline; otherwise loadAssignedRide, and no guard against a call
\* that is already running.
checkForNewRides(p, d) ==
  /\ poll[p].at = "idle"
  /\ IF authDriver[d] = "offline"
     THEN /\ poll' = [poll EXCEPT ![p] = Ended(d, "checkForNewRides", "offline")]
          /\ UNCHANGED currentRide
     ELSE /\ AssignedRideLoaded(d)
          /\ poll' = [poll EXCEPT ![p] =
               Running(d, "loadAssignedRide",
                       IF authDriver[d] = "online" THEN "notifications" ELSE "booking",
                       {}, TRUE,
                       IF currentRide'[d] = AssignedRide(d) THEN "ok"
                       ELSE "store_error")]
  /\ UNCHANGED <<store, pendingRides, call, error, completion, tracker, scheduled_bookings, notifications,
                 missed, scheduledBookings, authDriver, assignedScheduledBooking, manager, provider>>

\* checkForNewRides as far as the store's answer to the select of
\* loadAssignedRide: the driver's newest active ride as the store holds it
\* now, or an error. The answer is on its way to the session.
checkForNewRides_select(p, d) ==
  /\ poll[p].at = "idle"
  /\ authDriver[d] # "offline"
  /\ \E answered \in BOOLEAN :
       assignedRide' = [assignedRide EXCEPT ![p] =
         [data |-> IF answered THEN AssignedRide(d) ELSE NoRide, error |-> ~answered]]
  /\ poll' = [poll EXCEPT ![p] = Running(d, "loadAssignedRide", "assigned", {}, TRUE, "none")]
  /\ UNCHANGED <<store, local, call, error, completion, tracker, scheduled_bookings,
                 notifications, missed, scheduledBookings, authDriver,
                 assignedScheduledBooking, sessionDriver, managerDriver, realtimeChannel,
                 managerInitialized, provider>>

\* loadAssignedRide after its select: the answer, or null after an error,
\* goes to setCurrentRide; checkForNewRides goes on with its next load.
loadAssignedRide_result(p) ==
  LET d == poll[p].drv
  IN  /\ poll[p].at = "assigned"
      /\ currentRide' = [currentRide EXCEPT ![d] = assignedRide[p].data]
      /\ assignedRide' = [assignedRide EXCEPT ![p] = NoAnswer]
      /\ Proceed(p, d, "loadAssignedRide",
                 IF assignedRide[p].error THEN "store_error" ELSE "ok")
      /\ UNCHANGED <<store, pendingRides, call, error, completion, tracker,
                     scheduled_bookings, notifications, missed, scheduledBookings,
                     authDriver, assignedScheduledBooking, sessionDriver, managerDriver,
                     realtimeChannel, managerInitialized, provider>>

\* loadPendingRides up to its second select, called by itself
\* (handleNotificationUpdate) or as the next load of checkForNewRides: the
\* unread ride_request notifications of the driver.  An error ends the load;
\* no notification empties the pending rides.
loadPendingRides(p, d) ==
  /\ \/ poll[p].at = "idle"
     \/ poll[p].at = "notifications" /\ poll[p].drv = d
  /\ \E answered \in BOOLEAN :
       LET rideIds == {n.ride_id : n \in {m \in notifications :
                         m.user_id = d /\ m.type = "ride_request"
                         /\ m.status = "unread"}}
       IN  IF ~answered
           THEN /\ Proceed(p, d, "loadPendingRides", "store_error")
                /\ UNCHANGED pendingRides
           ELSE IF rideIds = {}
           THEN /\ Proceed(p, d, "loadPendingRides", "ok")
                /\ pendingRides' = [pendingRides EXCEPT ![d] = {}]
           ELSE /\ poll' = [poll EXCEPT ![p] =
                              Running(d, "loadPendingRides", "declined", rideIds,
                                      poll[p].at # "idle", "none")]
                /\ UNCHANGED pendingRides
  /\ UNCHANGED <<store, currentRide, call, error, completion, tracker, scheduled_bookings, notifications,
                 missed, scheduledBookings, authDriver, assignedScheduledBooking, manager, provider>>

\* loadPendingRides, the select of the ride_declined records: the declined
\* rides are left out; when the select fails its error is not read and no
\* ride is left out.
loadPendingRides_declined(p) ==
  LET d == poll[p].drv
  IN  /\ poll[p].op = "loadPendingRides" /\ poll[p].at = "declined"
      /\ \E answered \in BOOLEAN :
           LET declinedRideIds ==
                 IF answered
                 THEN {n.ride_id : n \in {m \in notifications :
                         m.user_id = d /\ m.type = "ride_declined"
                         /\ m.ride_id \in poll[p].ids}}
                 ELSE {}
               availableRideIds == poll[p].ids \ declinedRideIds
           IN  IF availableRideIds = {}
               THEN /\ Proceed(p, d, "loadPendingRides", "ok")
                    /\ pendingRides' = [pendingRides EXCEPT ![d] = {}]
               ELSE /\ poll' = [poll EXCEPT ![p] =
                                  Running(d, "loadPendingRides", "rides",
                                          availableRideIds, poll[p].run,
                                          IF answered THEN "none" ELSE "select_error")]
                    /\ UNCHANGED pendingRides
      /\ UNCHANGED <<store, currentRide, call, error, completion, tracker, scheduled_bookings, notifications,
                     missed, scheduledBookings, authDriver, assignedScheduledBooking, manager, provider>>

\* loadPendingRides, the select of the rides: those still requested and
\* without a driver become the pending rides; an error ends the load.
loadPendingRides_rides(p) ==
  LET d == poll[p].drv
  IN  /\ poll[p].op = "loadPendingRides" /\ poll[p].at = "rides"
      /\ \E answered \in BOOLEAN :
           IF answered
           THEN /\ pendingRides' = [pendingRides EXCEPT ![d] = Offered(poll[p].ids)]
                /\ Proceed(p, d, "loadPendingRides", "ok")
           ELSE /\ Proceed(p, d, "loadPendingRides", "store_error")
                /\ UNCHANGED pendingRides
      /\ UNCHANGED <<store, currentRide, call, error, completion, tracker, scheduled_bookings, notifications,
                     missed, scheduledBookings, authDriver, assignedScheduledBooking, manager, provider>>

\* The booking loadAssignedScheduledBooking finds: the first of the bookings
\* assigned to the driver whose status is assigned (ids grow with
\* scheduled_time).
AssignedBookingOf(d) ==
  LET mine == {b \in Bookings : /\ scheduled_bookings[b].assigned_driver_id = d
                                /\ scheduled_bookings[b].status = "assigned"}
  IN  IF mine = {} THEN NULL ELSE CHOOSE x \in mine : \A y \in mine : x <= y

\* loadAssignedScheduledBooking, called by itself
\* (handleScheduledBookingUpdate) or as the last load of checkForNewRides: one
\* select, whose result goes to setAssignedScheduledBooking; an error ends the
\* load.
loadAssignedScheduledBooking(p, d) ==
  /\ \/ poll[p].at = "idle"
     \/ poll[p].at = "booking" /\ poll[p].drv = d
  /\ \E answered \in BOOLEAN :
       IF answered
       THEN /\ assignedScheduledBooking' =
                 [assignedScheduledBooking EXCEPT ![d] = AssignedBookingOf(d)]
            /\ poll' = [poll EXCEPT ![p] = Ended(d, "loadAssignedScheduledBooking", "ok")]
       ELSE /\ poll' = [poll EXCEPT ![p] =
                          Ended(d, "loadAssignedScheduledBooking", "store_error")]
            /\ UNCHANGED assignedScheduledBooking
  /\ UNCHANGED <<store, local, call, error, completion, tracker, scheduled_bookings, notifications, missed,
                 scheduledBookings, authDriver, manager, provider>>

\* setDriver: the provider hands the manager the driver useAuth has, whenever
\* its id or status changes.
setDriver(d, status) ==
  /\ authDriver[d] # status
  /\ authDriver' = [authDriver EXCEPT ![d] = status]
  /\ UNCHANGED <<store, local, call, error, completion, tracker, scheduled_bookings, notifications, poll,
                 missed, scheduledBookings, assignedScheduledBooking, manager, provider>>

\* setLastNotificationCheck(new Date()): the driver's notifications are no
\* longer fresh, unless the interval still runs the callback of an earlier
\* render, which compares with the lastNotificationCheck of that render.
LastNotificationCheck(d) ==
  \E renewed \in BOOLEAN :
    notifications' =
      IF renewed
      THEN {IF n.user_id = d THEN [n EXCEPT !.fresh = FALSE] ELSE n : n \in notifications}
      ELSE notifications

\* checkForMissedNotifications up to processNewNotifications: the unread
\* ride_request notifications created since the last check.
checkForMissedNotifications(d) ==
  /\ missed[d].at = "idle"
  /\ \E answered \in BOOLEAN :
       LET rideIds == {n.ride_id : n \in {m \in notifications :
                         m.user_id = d /\ m.type = "ride_request"
                         /\ m.status = "unread" /\ m.fresh}}
       IN  IF ~answered
           THEN /\ missed' = [missed EXCEPT ![d] =
                                Ended(d, "checkForMissedNotifications", "store_error")]
                /\ UNCHANGED notifications
           ELSE IF rideIds = {}
           THEN /\ missed' = [missed EXCEPT ![d] =
                                Ended(d, "checkForMissedNotifications", "ok")]
                /\ LastNotificationCheck(d)
           ELSE /\ missed' = [missed EXCEPT ![d] =
                                Running(d, "checkForMissedNotifications", "rides", rideIds,
                                        FALSE, "none")]
                /\ UNCHANGED notifications
  /\ UNCHANGED <<store, local, call, error, completion, tracker, scheduled_bookings, poll, scheduledBookings,
                 authDriver, assignedScheduledBooking, manager, provider>>

\* processNewNotifications: the rides of the notifications that are still
\* requested and without a driver are added to the pending rides; then
\* checkForMissedNotifications sets lastNotificationCheck.
processNewNotifications(d) ==
  /\ missed[d].op = "checkForMissedNotifications" /\ missed[d].at = "rides"
  /\ \E answered \in BOOLEAN :
       IF answered
       THEN /\ pendingRides' = [pendingRides EXCEPT ![d] = @ \cup Offered(missed[d].ids)]
            /\ missed' = [missed EXCEPT ![d] = Ended(d, "checkForMissedNotifications", "ok")]
       ELSE /\ missed' = [missed EXCEPT ![d] =
                            Ended(d, "checkForMissedNotifications", "store_error")]
            /\ UNCHANGED pendingRides
  /\ LastNotificationCheck(d)
  /\ UNCHANGED <<store, currentRide, call, error, completion, tracker, scheduled_bookings, poll, scheduledBookings,
                 authDriver, assignedScheduledBooking, manager, provider>>

\* ScheduledTripsScreen.loadScheduledBookings: the bookings assigned to the
\* driver that are assigned, confirmed, driver_arrived or in_progress; the
\* empty list after a query error or a thrown error.
loadScheduledBookings(p, d) ==
  /\ poll[p].at = "idle"
  /\ \E answered \in BOOLEAN :
       IF answered
       THEN /\ scheduledBookings' = [scheduledBookings EXCEPT ![d] =
                 {b \in Bookings : /\ scheduled_bookings[b].assigned_driver_id = d
                                   /\ scheduled_bookings[b].status \in
                                        {"assigned", "confirmed", "driver_arrived",
                                         "in_progress"}}]
            /\ poll' = [poll EXCEPT ![p] = Ended(d, "loadScheduledBookings", "ok")]
       ELSE /\ scheduledBookings' = [scheduledBookings EXCEPT ![d] = {}]
            /\ poll' = [poll EXCEPT ![p] =
                          Ended(d, "loadScheduledBookings", "store_error")]
  /\ UNCHANGED <<store, local, call, error, completion, tracker, scheduled_bookings, notifications, missed,
                 authDriver, assignedScheduledBooking, manager, provider>>

\* ---------------------------------------------------------- trip tracking
\* calculateDistance of two places, in tenths of km: the places lie on one
\* road, one km apart.
calculateDistance(a, b) == 10 * (IF a >= b THEN a - b ELSE b - a)

\* The sum of the distances between the consecutive places of a path.
RECURSIVE PathLength(_)
PathLength(path) ==
  IF Len(path) < 2 THEN 0
  ELSE calculateDistance(path[1], path[2]) + PathLength(Tail(path))

\* The location provider hands the session a new location sample (a new
\* object each time): the sample of a trip under way is one of the trip's.
\* The effects of the render before have run.
setCurrentLocation(d, place) ==
  /\ effect[d] => runs[d] >= 1
  /\ Len(samples[d]) < NumSamples
  /\ currentLocation' = [currentLocation EXCEPT ![d] = place]
  /\ effect' = [effect EXCEPT ![d] = TRUE]
  /\ runs' = [runs EXCEPT ![d] = 0]
  /\ samples' = [samples EXCEPT ![d] =
       IF currentRide[d].status = "in_progress" THEN Append(@, place) ELSE @]
  /\ UNCHANGED <<store, local, call, scheduled_bookings, bridge, error, completion,
                 tripStartTime, tripStartLocation, totalDistanceTraveled, lastKnownLocation, manager, provider>>

\* The distance effect runs its body: a trip under way, a location, a start
\* location. Its setLastKnownLocation then stores a new object, which is one
\* of the effect's dependencies.
Writes(d) ==
  /\ currentRide[d].status = "in_progress"
  /\ currentLocation[d] # NULL
  /\ tripStartLocation[d] # NULL

\* One run of the distance effect of the session of d, due because one of its
\* dependencies changed.
distanceEffect(d) ==
  /\ effect[d]
  /\ IF Writes(d)
     THEN /\ totalDistanceTraveled' = [totalDistanceTraveled EXCEPT ![d] =
               IF lastKnownLocation[d] # NULL
               THEN @ + calculateDistance(lastKnownLocation[d], currentLocation[d])
               ELSE @]
          /\ lastKnownLocation' = [lastKnownLocation EXCEPT ![d] = currentLocation[d]]
     ELSE UNCHANGED <<totalDistanceTraveled, lastKnownLocation>>
  /\ effect' = [effect EXCEPT ![d] = Writes(d)]
  /\ runs' = [runs EXCEPT ![d] = IF @ > SettledRuns THEN @ ELSE @ + 1]
  /\ UNCHANGED <<store, local, call, scheduled_bookings, bridge, error, completion,
                 currentLocation, tripStartTime, tripStartLocation, samples, manager, provider>>

\* ------------------------------------------------------ location provider
\* stopLocationTracking: the subscription held is removed and tracking is
\* off; nothing without a subscription held.
stopLocationTracking ==
  IF locationSubscription # NULL
  THEN /\ subscriptions' = subscriptions \ {locationSubscription}
       /\ locationSubscription' = NULL
       /\ isTracking' = FALSE
  ELSE UNCHANGED <<subscriptions, locationSubscription, isTracking>>

\* stopLocationTracking called by itself (it is exposed to the screens).
stopLocationTracking_called ==
  /\ stopLocationTracking
  /\ UNCHANGED <<store, local, call, error, completion, tracker, scheduled_bookings,
                 bridge, manager, activation>>

\* The provider's effect on driver.status: the status of driver d changes;
\* online or busy calls handleActiveDriver, which awaits the select of
\* forceCreateLocationRecord; offline calls stopLocationTracking.
driverStatusEffect(k, d, status) ==
  /\ activation[k].at = "idle"
  /\ authDriver[d] # status
  /\ authDriver' = [authDriver EXCEPT ![d] = status]
  /\ IF status = "offline"
     THEN /\ stopLocationTracking
          /\ UNCHANGED activation
     ELSE /\ activation' = [activation EXCEPT ![k] = Activation(d, "select", FALSE, "none")]
          /\ UNCHANGED <<subscriptions, locationSubscription, isTracking>>
  /\ UNCHANGED <<store, local, call, error, completion, tracker, scheduled_bookings,
                 notifications, poll, missed, scheduledBookings, assignedScheduledBooking,
                 manager>>

\* startLocationTracking up to its first await: nothing while tracking.
StartLocationTracking(k, d, ok, upsert) ==
  activation' = [activation EXCEPT ![k] =
    IF isTracking THEN Activation(d, "idle", ok, upsert)
    ELSE Activation(d, "location", ok, upsert)]

\* forceCreateLocationRecord's select of the driver's record: a record found
\* returns true, and handleActiveDriver calls startLocationTracking; an
\* error or no record goes on to the upsert.
forceCreateLocationRecord_select(k) ==
  LET d == activation[k].drv
  IN  /\ activation[k].at = "select"
      /\ \E answered \in BOOLEAN :
           IF answered /\ live_locations[d]
           THEN StartLocationTracking(k, d, TRUE, "none")
           ELSE activation' = [activation EXCEPT ![k] =
                                 Activation(d, "upsert", FALSE, "none")]
      /\ UNCHANGED <<store, local, call, error, completion, tracker, scheduled_bookings,
                     bridge, manager, isTracking, locationSubscription, subscriptions>>

\* forceCreateLocationRecord's upsert and what follows: the next statement
\* reads insertError, a name the function does not declare, so a
\* ReferenceError is thrown whatever the upsert answered, the catch block
\* returns false, and handleActiveDriver starts no tracking.
forceCreateLocationRecord_upsert(k) ==
  LET d == activation[k].drv
  IN  /\ activation[k].at = "upsert"
      /\ \E answered \in BOOLEAN :
           /\ live_locations' = [live_locations EXCEPT ![d] = @ \/ answered]
           /\ activation' = [activation EXCEPT ![k] =
                Activation(d, "idle", FALSE, IF answered THEN "ok" ELSE "error")]
      /\ UNCHANGED <<rides, driverStatus, local, call, error, completion, tracker,
                     scheduled_bookings, bridge, manager, isTracking,
                     locationSubscription, subscriptions>>

\* startLocationTracking called by itself (it is exposed to the screens).
startLocationTracking(k, d) ==
  /\ activation[k].at = "idle"
  /\ StartLocationTracking(k, d, activation[k].ok, activation[k].upsert)
  /\ UNCHANGED <<store, local, call, error, completion, tracker, scheduled_bookings,
                 bridge, manager, isTracking, locationSubscription, subscriptions>>

\* startLocationTracking after updateLocationWithGoogleMaps: the location it
\* got, if any, is the current location and goes to the driver's record; the
\* position watcher is asked for.
startLocationTracking_location(k) ==
  LET d == activation[k].drv
  IN  /\ activation[k].at = "location"
      /\ \E place \in Places \cup {NULL}, answered \in BOOLEAN :
           /\ currentLocation' = IF place = NULL THEN currentLocation
                                 ELSE [currentLocation EXCEPT ![d] = place]
           /\ effect' = IF place = NULL THEN effect ELSE [effect EXCEPT ![d] = TRUE]
           /\ runs' = IF place = NULL THEN runs ELSE [runs EXCEPT ![d] = 0]
           /\ live_locations' = [live_locations EXCEPT ![d] =
                                   @ \/ (place # NULL /\ answered)]
      /\ activation' = [activation EXCEPT ![k].at = "watch"]
      /\ UNCHANGED <<rides, driverStatus, local, call, error, completion,
                     scheduled_bookings, bridge, manager, isTracking,
                     locationSubscription, subscriptions, tripStartTime,
                     tripStartLocation, totalDistanceTraveled, lastKnownLocation, samples>>

\* startLocationTracking after watchPositionAsync (or setInterval): the new
\* subscription is the one held and tracking is on; an error leaves all as
\* it was.
startLocationTracking_watch(k) ==
  /\ activation[k].at = "watch"
  /\ \E answered \in BOOLEAN :
       IF answered
       THEN \E subscription \in Subscriptions \ subscriptions :
              /\ subscriptions' = subscriptions \cup {subscription}
              /\ locationSubscription' = subscription
              /\ isTracking' = TRUE
       ELSE UNCHANGED <<subscriptions, locationSubscription, isTracking>>
  /\ activation' = [activation EXCEPT ![k].at = "idle"]
  /\ UNCHANGED <<store, local, call, error, completion, tracker, scheduled_bookings,
                 bridge, manager>>

\* ------------------------------------------------------ realtime channels
\* setupRealtimeSubscriptions: nothing without the user id of this.authDriver;
\* else the three channels (rides, notifications, scheduled bookings), all
\* filtered on the ids of this.authDriver.
setupRealtimeSubscriptions ==
  IF managerDriver = NULL THEN realtimeChannel ELSE managerDriver

\* The provider mounts. Its first effect initializes the manager (the
\* subscriptions, the polling interval), its second effect then hands the
\* manager the driver useAuth() gives.
initialize ==
  /\ ~managerInitialized
  /\ realtimeChannel' = setupRealtimeSubscriptions
  /\ managerInitialized' = TRUE
  /\ managerDriver' = sessionDriver
  /\ UNCHANGED <<store, local, call, error, completion, tracker, scheduled_bookings,
                 bridge, sessionDriver, assignedRide, provider>>

\* The provider unmounts: cleanup() removes the channels and the interval;
\* the manager, a global instance, keeps its driver.
cleanup ==
  /\ managerInitialized
  /\ realtimeChannel' = NULL
  /\ managerInitialized' = FALSE
  /\ UNCHANGED <<store, local, call, error, completion, tracker, scheduled_bookings,
                 bridge, sessionDriver, managerDriver, assignedRide, provider>>

\* useAuth() gives another driver, or none (d = NULL); a mounted provider runs
\* its effect on driver?.id, which hands the manager the driver (and starts a
\* checkForNewRides, which is its own action).
driverChanges(d) ==
  /\ d # sessionDriver
  /\ sessionDriver' = d
  /\ managerDriver' = IF managerInitialized THEN d ELSE managerDriver
  /\ UNCHANGED <<store, local, call, error, completion, tracker, scheduled_bookings,
                 bridge, realtimeChannel, managerInitialized, assignedRide, provider>>

\* -------------------------------------------------------------- scenarios
FirstRide   == CHOOSE r \in Rides : \A q \in Rides : r <= q
FirstDriver == CHOOSE d \in Drivers : \A e \in Drivers : d <= e
FirstBooking == CHOOSE b \in Bookings : \A c \in Bookings : b <= c
FirstPoll == CHOOSE p \in Polls : \A q \in Polls : p <= q

FirstCall   == CHOOSE k \in Calls : \A j \in Calls : k <= j
FirstOtp    == CHOOSE c \in Otps : \A e \in Otps : c <= e

\* A new call takes the first slot whose call has returned.
Slot(k) == Free(k) /\ \A j \in Calls : j < k => ~Free(j)

\* One driver session and one ride: every operation of the controller of
\* part_002, called in any order (up to NumGateCalls at once).
Next ==
  \E k \in GateCalls :
    \/ Slot(k) /\ acceptRide(k, FirstDriver, FirstRide)
    \/ acceptRide_update(k)
    \/ acceptRide_status(k)
    \/ Slot(k) /\ markDriverArrived(k, FirstDriver, FirstRide)
    \/ Slot(k) /\ generatePickupOTP(k, FirstDriver, FirstRide)
    \/ Slot(k) /\ \E otp \in Otps : verifyPickupOTP(k, FirstDriver, FirstRide, otp)
    \/ verifyPickupOTP_update(k)
    \/ Slot(k) /\ startRide(k, FirstDriver, FirstRide)
    \/ Slot(k) /\ completeRide(k, FirstDriver, FirstRide)
    \/ completeRide_fare_matrix(k)
    \/ completeRide_update(k)
    \/ completeRide_driver(k)
    \/ Slot(k) /\ cancelRide(k, FirstDriver, FirstRide)
    \/ cancelRide_driver(k)

Spec == Init /\ [][Next]_vars

\* The pickup of one ride by one driver session with the controller of
\* part_002, the calls overlapping (up to NumCalls at once): the ride accepted,
\* the arrival marked, pickup OTPs generated and verified.
NextPickup ==
  \E k \in Calls :
    \/ Slot(k) /\ acceptRide(k, FirstDriver, FirstRide)
    \/ acceptRide_update(k)
    \/ acceptRide_status(k)
    \/ Slot(k) /\ markDriverArrived(k, FirstDriver, FirstRide)
    \/ Slot(k) /\ generatePickupOTP(k, FirstDriver, FirstRide)
    \/ Slot(k) /\ \E otp \in Otps : verifyPickupOTP(k, FirstDriver, FirstRide, otp)
    \/ verifyPickupOTP_update(k)

SpecPickup == Init /\ [][NextPickup]_vars

\* The same with the controller of part_001.
NextP1 ==
  \E k \in Calls :
    \/ Slot(k) /\ P1_acceptRide(k, FirstDriver, FirstRide)
    \/ P1_acceptRide_status(k)
    \/ Slot(k) /\ markDriverArrived(k, FirstDriver, FirstRide)
    \/ Slot(k) /\ generatePickupOTP(k, FirstDriver, FirstRide)
    \/ Slot(k) /\ \E otp \in Otps : P1_verifyPickupOTP(k, FirstDriver, FirstRide, otp)
    \/ Slot(k) /\ startRide(k, FirstDriver, FirstRide)
    \/ Slot(k) /\ P1_completeRide(k, FirstDriver, FirstRide)
    \/ P1_completeRide_driver(k)
    \/ Slot(k) /\ P1_cancelRide(k, FirstDriver, FirstRide)
    \/ P1_cancelRide_driver(k)

SpecP1 == Init /\ [][NextP1]_vars

\* Any driver session accepts any ride; session d uses call slot d.
NextAccept ==
  \E d \in Drivers \cap Calls :
    \/ \E r \in Rides : acceptRide(d, d, r)
    \/ acceptRide_update(d)
    \/ acceptRide_status(d)
    \/ \E r \in Rides : P1_acceptRide(d, d, r)
    \/ P1_acceptRide_status(d)

SpecAccept == Init /\ [][NextAccept]_vars

\* The race of the drivers for one requested ride.
NextRace ==
  \E d \in Drivers \cap Calls :
    \/ acceptRide(d, d, FirstRide)
    \/ acceptRide_update(d)
    \/ acceptRide_status(d)
    \/ P1_acceptRide(d, d, FirstRide)
    \/ P1_acceptRide_status(d)

SpecRace == Init /\ [][NextRace]_vars

\* The pickup OTP gate alone, in its three implementations: the ride's code
\* (part_002 and part_001) and the scheduled booking's code.
NextOtp ==
  \E k \in GateCalls :
    \/ Slot(k) /\ generatePickupOTP(k, FirstDriver, FirstRide)
    \/ Slot(k) /\ \E otp \in Otps : verifyPickupOTP(k, FirstDriver, FirstRide, otp)
    \/ verifyPickupOTP_update(k)
    \/ Slot(k) /\ \E otp \in Otps : P1_verifyPickupOTP(k, FirstDriver, FirstRide, otp)
    \/ Slot(k) /\ handleGeneratePickupOTP(k, FirstDriver, FirstBooking)
    \/ Slot(k) /\ \E otp \in Otps :
                    handleOTPVerification(k, FirstDriver, FirstBooking, otp)
    \/ handleOTPVerification_update(k)
    \/ handleOTPVerification_status(k)

SpecOtp == Init /\ [][NextOtp]_vars

\* The end of a trip with the controller of part_002: the ride started, a
\* drop OTP generated any number of times, the ride completed.
NextTrip ==
  \E k \in Calls :
    \/ Slot(k) /\ startRide(k, FirstDriver, FirstRide)
    \/ Slot(k) /\ generateDropOTP(k, FirstDriver, FirstRide)
    \/ Slot(k) /\ completeRide(k, FirstDriver, FirstRide)
    \/ completeRide_fare_matrix(k)
    \/ completeRide_update(k)
    \/ completeRide_driver(k)

SpecTrip == Init /\ [][NextTrip]_vars

\* One trip of one driver, one call at a time, with the location provider
\* running: the pickup OTP (one code, which the rider gives) of a ride not
\* yet under way, the samples and the distance effect until the ride is
\* completed, the completion.
NextTrack ==
  \/ /\ rides[FirstRide].status # "completed"
     /\ \E place \in Places : setCurrentLocation(FirstDriver, place)
  \/ distanceEffect(FirstDriver)
  \/ /\ rides[FirstRide].status \notin {"in_progress", "completed"}
     /\ Free(FirstCall) /\ generatePickupOTP(FirstCall, FirstDriver, FirstRide)
     /\ rides'[FirstRide].pickup_otp \in {NULL, FirstOtp}
  \/ /\ rides[FirstRide].status \notin {"in_progress", "completed"}
     /\ Free(FirstCall) /\ verifyPickupOTP(FirstCall, FirstDriver, FirstRide, FirstOtp)
  \/ verifyPickupOTP_update(FirstCall)
  \/ Free(FirstCall) /\ completeRide(FirstCall, FirstDriver, FirstRide)
  \/ completeRide_fare_matrix(FirstCall)
  \/ completeRide_update(FirstCall)
  \/ completeRide_driver(FirstCall)

SpecTrack == Init /\ [][NextTrack]_vars

\* The offer of one ride: the dispatcher notifies the first driver, who
\* declines it (any number of times, with either controller), and the other
\* driver sessions accept it; session d uses call slot d.
NextDecline ==
  \/ notifyDriver(FirstDriver, FirstRide)
  \/ declineRide(FirstDriver, FirstDriver, FirstRide)
  \/ declineRide_insert(FirstDriver)
  \/ P1_declineRide(FirstDriver, FirstDriver, FirstRide)
  \/ \E d \in (Drivers \cap Calls) \ {FirstDriver} :
       \/ acceptRide(d, d, FirstRide)
       \/ acceptRide_update(d)
       \/ acceptRide_status(d)

SpecDecline == Init /\ [][NextDecline]_vars

\* One driver session of part_002 and one ride, offered, declined or accepted,
\* while the notification manager, the missed-notification check and the
\* scheduled trips screen reload from the store.
NextOffers ==
  \/ notifyDriver(FirstDriver, FirstRide)
  \/ declineRide(FirstDriver, FirstDriver, FirstRide)
  \/ declineRide_insert(FirstDriver)
  \/ acceptRide(FirstDriver, FirstDriver, FirstRide)
  \/ acceptRide_update(FirstDriver)
  \/ acceptRide_status(FirstDriver)
  \/ loadAssignedRide(FirstPoll, FirstDriver)
  \/ loadPendingRides(FirstPoll, FirstDriver)
  \/ loadPendingRides_declined(FirstPoll)
  \/ loadPendingRides_rides(FirstPoll)
  \/ checkForMissedNotifications(FirstDriver)
  \/ processNewNotifications(FirstDriver)
  \/ loadScheduledBookings(FirstPoll, FirstDriver)

SpecOffers == Init /\ [][NextOffers]_vars

\* The step of slot p got the answer of the store.
Answered(p) == poll'[p].why \notin {"store_error", "select_error"}

\* The load of slot p has ended.
Done(p) == poll[p].at = "idle" /\ poll[p].op # "none"

\* The next load of the checkForNewRides call of slot p, answered by the store.
checkForNewRides_next(p, d) ==
  /\ poll[p].run
  /\ \/ loadPendingRides(p, d)
     \/ loadPendingRides_declined(p)
     \/ loadPendingRides_rides(p)
     \/ loadAssignedScheduledBooking(p, d)
  /\ Answered(p)

\* refreshRides called again and again, each call after the one before has
\* ended: rides are offered, declined and accepted and the driver's status
\* changes before the first call, nothing is written afterwards, and every
\* select is answered.
NextTwice ==
  \/ /\ \A p \in Polls : poll[p] = Idle
     /\ \/ \E r \in Rides : notifyDriver(FirstDriver, r)
        \/ declineRide(FirstDriver, FirstDriver, FirstRide)
        \/ declineRide_insert(FirstDriver)
        \/ \E r \in Rides : acceptRide(FirstDriver, FirstDriver, r)
        \/ acceptRide_update(FirstDriver)
        \/ acceptRide_status(FirstDriver)
        \/ \E status \in {"online", "busy", "offline"} :
             setDriver(FirstDriver, status)
  \/ \E p \in Polls :
       \/ /\ poll[p] = Idle
          /\ \A q \in Polls : q < p => Done(q)
          /\ checkForNewRides(p, FirstDriver)
          /\ Answered(p)
       \/ checkForNewRides_next(p, FirstDriver)

SpecTwice == Init /\ [][NextTwice]_vars

\* checkForNewRides calls that overlap: the first driver is offered the first
\* ride and declines it once; the call of the first slot starts at any time,
\* those of the other slots after declineRide has returned, which is after
\* the last write to the store; every select is answered.
NextRefresh ==
  \/ call[FirstDriver] = NoCall /\ notifyDriver(FirstDriver, FirstRide)
  \/ call[FirstDriver] = NoCall /\ declineRide(FirstDriver, FirstDriver, FirstRide)
  \/ declineRide_insert(FirstDriver)
  \/ \E p \in Polls :
       \/ /\ poll[p] = Idle
          /\ p # FirstPoll => /\ call[FirstDriver].op = "declineRide"
                               /\ call[FirstDriver].at = "returned"
          /\ checkForNewRides(p, FirstDriver)
          /\ Answered(p)
       \/ checkForNewRides_next(p, FirstDriver)

SpecRefresh == Init /\ [][NextRefresh]_vars

\* completeRide's fare for the completion at hand: the rental branch for a
\* rental, the regular branch for every other booking type.
completionData_completeRide ==
  /\ completion.by = "none"
  /\ completion' =
       [completion EXCEPT
          !.by = "completeRide",
          !.total = IF completion.booking_type = "rental"
                    THEN rentalFare_completeRide(completion.rental_hours, completion.row)
                    ELSE totalFare(completion.distance, completion.duration,
                                   completion.row)]
  /\ UNCHANGED <<store, local, call, scheduled_bookings, bridge, error, tracker, manager, provider>>

\* handleCompleteTrip's fare for the completion at hand; a regular booking
\* has no fare table there and is not completed.
completionData_handleCompleteTrip ==
  /\ completion.by = "none"
  /\ completion.booking_type \in {"rental", "outstation", "airport"}
  /\ completion' =
       [completion EXCEPT
          !.by = "handleCompleteTrip",
          !.total = IF completion.booking_type = "rental"
                    THEN rentalFare(completion.rental_hours, completion.duration,
                                    completion.distance, completion.row)
                    ELSE IF completion.booking_type = "outstation"
                    THEN outstationFare(completion.distance, completion.endTime,
                                        completion.row)
                    ELSE airportFare(completion.distance, completion.endTime,
                                     completion.row)]
  /\ UNCHANGED <<store, local, call, scheduled_bookings, bridge, error, tracker, manager, provider>>

\* One completion, by the controller or by the scheduled trips screen.
NextFare ==
  \/ completionData_completeRide
  \/ completionData_handleCompleteTrip

SpecFare == InitFare /\ [][NextFare]_vars

\* The interval of initialize fires and every select of its checkForNewRides
\* call is answered.
Tick == checkForNewRides(FirstPoll, FirstDriver) /\ Answered(FirstPoll)

\* The checkForNewRides call of the interval goes on with its next load.
Tick_next ==
  /\ poll[FirstPoll].run
  /\ \/ loadPendingRides(FirstPoll, FirstDriver)
     \/ loadPendingRides_declined(FirstPoll)
     \/ loadPendingRides_rides(FirstPoll)
     \/ loadAssignedScheduledBooking(FirstPoll, FirstDriver)

\* One driver session without any realtime event: the driver is offered rides
\* and accepts them, the driver's status changes, and the interval of
\* initialize is the only caller of checkForNewRides.  setInterval fires
\* again and again and every call returns, so an answered call happens again
\* and again while the store answers.
NextTimer ==
  \/ notifyDriver(FirstDriver, FirstRide)
  \/ \E r \in Rides : acceptRide(FirstDriver, FirstDriver, r)
  \/ acceptRide_update(FirstDriver)
  \/ acceptRide_status(FirstDriver)
  \/ \E status \in {"online", "busy", "offline"} : setDriver(FirstDriver, status)
  \/ checkForNewRides(FirstPoll, FirstDriver)
  \/ Tick_next

SpecTimer ==
  Init /\ [][NextTimer]_vars /\ SF_vars(Tick) /\ WF_vars(Tick_next)

\* The life of the provider of one device: it mounts and unmounts, drivers
\* sign in and out, the driver signed in changes status, and the interval of
\* initialize polls for the driver the manager holds.
NextChannels ==
  \/ initialize
  \/ cleanup
  \/ \E d \in Drivers \cup {NULL} : driverChanges(d)
  \/ /\ managerInitialized /\ managerDriver # NULL
     /\ \/ \E status \in {"online", "busy", "offline"} : setDriver(managerDriver, status)
        \/ notifyDriver(managerDriver, FirstRide)
        \/ checkForNewRides(FirstPoll, managerDriver)
  \/ /\ poll[FirstPoll].run
     /\ \/ loadPendingRides(FirstPoll, poll[FirstPoll].drv)
        \/ loadPendingRides_declined(FirstPoll)
        \/ loadPendingRides_rides(FirstPoll)
        \/ loadAssignedScheduledBooking(FirstPoll, poll[FirstPoll].drv)

SpecChannels == Init /\ [][NextChannels]_vars

\* The location provider of the first driver's device: the driver's status
\* changes, the screens start and stop the tracking, and the calls overlap.
NextProvider ==
  \/ stopLocationTracking_called
  \/ \E k \in Calls :
       \/ \E status \in {"online", "busy", "offline"} :
            driverStatusEffect(k, FirstDriver, status)
       \/ startLocationTracking(k, FirstDriver)
       \/ forceCreateLocationRecord_select(k)
       \/ forceCreateLocationRecord_upsert(k)
       \/ startLocationTracking_location(k)
       \/ startLocationTracking_watch(k)

SpecProvider == Init /\ [][NextProvider]_vars

\* The drivers and the one scheduled booking, which the dispatcher assigned
\* to the first driver: each driver accepts and declines it with the
\* controller, in any order.
NextBookings ==
  \E d \in Drivers \cap Calls :
    \/ acceptScheduledBooking(d, d, FirstBooking)
    \/ declineScheduledBooking(d, d, FirstBooking)

SpecBookings == Init /\ [][NextBookings]_vars

\* The Scheduled Trips screen of the first driver, one call at a time: the
\* screen loads its list and the driver acts on the booking it lists, while
\* the drivers accept the booking, and the first driver declines it, with
\* the controller.
NextScreen ==
  \/ \E d \in Drivers \cap Calls : Free(FirstCall) /\ acceptScheduledBooking(d, d, FirstBooking)
  \/ Free(FirstCall) /\ declineScheduledBooking(FirstCall, FirstDriver, FirstBooking)
  \/ loadScheduledBookings(FirstPoll, FirstDriver)
  \/ /\ FirstBooking \in scheduledBookings[FirstDriver]
     /\ \/ handleAcceptBooking(FirstCall, FirstDriver, FirstBooking)
        \/ handleDeclineBooking(FirstCall, FirstDriver, FirstBooking)
        \/ handleGeneratePickupOTP(FirstCall, FirstDriver, FirstBooking)
        \/ \E otp \in Otps :
             handleOTPVerification(FirstCall, FirstDriver, FirstBooking, otp)
  \/ handleAcceptBooking_update(FirstCall)
  \/ handleBooking_load(FirstCall)
  \/ handleOTPVerification_update(FirstCall)
  \/ handleOTPVerification_status(FirstCall)

SpecScreen == Init /\ [][NextScreen]_vars

\* One driver is offered the first ride and accepts it while the interval
\* calls checkForNewRides, every select answered; the store's answer to the
\* select of loadAssignedRide reaches the session at any later time.
NextStale ==
  \/ notifyDriver(FirstDriver, FirstRide)
  \/ Free(FirstCall) /\ acceptRide(FirstCall, FirstDriver, FirstRide)
  \/ acceptRide_update(FirstCall)
  \/ acceptRide_status(FirstCall)
  \/ checkForNewRides_select(FirstPoll, FirstDriver) /\ ~assignedRide'[FirstPoll].error
  \/ loadAssignedRide_result(FirstPoll)
  \/ checkForNewRides_next(FirstPoll, FirstDriver)

SpecStale == Init /\ [][NextStale]_vars

\* ------------------------------------------------------------ properties
AcceptOps == {"acceptRide", "P1_acceptRide"}
ActiveStatus == {"accepted", "driver_arrived", "in_progress"}

Returned(k) == call[k].at = "returned" /\ call[k].op # "none"
\* The accept call of slot k took the ride: its update matched.
Won(k) == /\ call[k].op \in AcceptOps
          /\ call[k].at = "status" \/ (call[k].at = "returned" /\ call[k].ok)

\* C1: the drivers race for one requested ride with their acceptRide calls, in
\* any interleaving of the store calls: at most one call takes the ride, every
\* returned call of another driver returned false, and the ride's driver_id is
\* the driver of the call that took it.
C1_AtMostOneAccept ==
  /\ Cardinality({k \in Calls : Won(k) /\ call[k].ride = FirstRide}) <= 1
  /\ \A k \in Calls :
       /\ Won(k) => rides[call[k].ride].driver_id = call[k].drv
       /\ (call[k].op \in AcceptOps /\ Returned(k)
             /\ rides[call[k].ride].driver_id # call[k].drv) => ~call[k].ok

\* C1 witness: driver 1 took the ride and still awaits its status update while
\* the call of driver 2 on the same ride has returned false, the ride taken.
C1_Witness ==
  /\ Won(1) /\ call[1].at = "status" /\ rides[FirstRide].driver_id = 1
  /\ Returned(2) /\ call[2].op \in AcceptOps /\ call[2].ride = FirstRide
  /\ call[2].why = "taken" /\ ~call[2].ok

\* C2: an acceptRide call whose conditional update matches no row returns
\* false (it does not raise), and that step leaves the rides table, the
\* drivers' availability and the session's current ride as they were.
C2_LoserChangesNothing ==
  [][\A k \in Calls :
       (call'[k] # call[k] /\ call'[k].op \in AcceptOps /\ call'[k].why = "taken")
         => /\ call'[k].at = "returned" /\ call'[k].ok = FALSE
            /\ rides' = rides
            /\ driverStatus' = driverStatus
            /\ currentRide' = currentRide]_vars

\* C2 witness: a driver that holds a current ride and is busy has lost a later
\* acceptRide call, and still holds the ride and is busy.
C2_Witness ==
  \E k \in Calls :
    /\ Returned(k) /\ call[k].op \in AcceptOps /\ call[k].why = "taken" /\ ~call[k].ok
    /\ currentRide[call[k].drv].id = call[k].ride
    /\ driverStatus[call[k].drv] = "busy"

\* C3: in every reachable state each driver is the driver of at most one ride
\* whose status is accepted, driver_arrived or in_progress.
C3_OneActiveRidePerDriver ==
  \A d \in Drivers :
    Cardinality({r \in Rides : rides[r].driver_id = d
                                 /\ rides[r].status \in ActiveStatus}) <= 1

VerifyOps == {"verifyPickupOTP", "P1_verifyPickupOTP"}
Terminal == {"completed", "cancelled"}

\* The step is one of the call in slot k.
Stepped(k) == call'[k] # call[k]

\* C4: completed and cancelled are terminal: no step of any controller
\* operation changes the status of a ride whose status in the store is
\* completed or cancelled.
C4_TerminalStaysTerminal ==
  [][\A r \in Rides :
       rides[r].status \in Terminal => rides'[r].status = rides[r].status]_vars

\* C5: a verifyPickupOTP call reports success only when the ride was in
\* driver_arrived and the code equals the stored pickup OTP, and then the ride
\* is in_progress; a call that reports failure leaves the rides table as it
\* was.
C5_VerifyOnlyFromArrived ==
  [][\A k \in Calls :
       (Stepped(k) /\ call'[k].op \in VerifyOps /\ call'[k].at = "returned")
         => IF call'[k].ok
            THEN /\ rides[call'[k].ride].status = "driver_arrived"
                 /\ rides[call'[k].ride].pickup_otp = call'[k].otp
                 /\ rides'[call'[k].ride].status = "in_progress"
            ELSE rides' = rides]_vars

\* C6: every change of a ride's status to in_progress starts from
\* driver_arrived and is the step of a verifyPickupOTP call that reports
\* success on that ride.
C6_InProgressOnlyThroughOtp ==
  [][\A r \in Rides :
       (rides'[r].status = "in_progress" /\ rides[r].status # "in_progress")
         => /\ rides[r].status = "driver_arrived"
            /\ \E k \in Calls : /\ Stepped(k) /\ call'[k].op \in VerifyOps
                                /\ call'[k].ok /\ call'[k].ride = r]_vars

\* C7: a verifyPickupOTP call never writes its transition while the ride
\* stores a code other than the one the call carries (a code that a later
\* generatePickupOTP has stored).
C7_RegenerationInvalidates ==
  [][\A k \in Calls :
       (Stepped(k) /\ call'[k].op \in VerifyOps /\ call'[k].ok)
         => rides[call'[k].ride].pickup_otp \in {NULL, call'[k].otp}]_vars

\* The pickup OTP stored for what the call c works on: the scheduled booking
\* for handleOTPVerification, the ride otherwise.
StoredPickupOtp(c) ==
  IF c.op = "handleOTPVerification" THEN scheduled_bookings[c.ride].pickup_otp
  ELSE rides[c.ride].pickup_otp

\* C8: a verification (verifyPickupOTP of either controller, or
\* handleOTPVerification of the scheduled trips screen) called while the
\* stored pickup OTP is null fails in that very step, whatever code it is
\* given, and writes nothing to the ride or the booking.
C8_NullCodeNeverVerifies ==
  [][\A k \in Calls :
       (Stepped(k) /\ Free(k)
          /\ call'[k].op \in VerifyOps \cup {"handleOTPVerification"}
          /\ StoredPickupOtp(call'[k]) = NULL)
         => /\ call'[k].at = "returned" /\ ~call'[k].ok
            /\ rides' = rides
            /\ scheduled_bookings' = scheduled_bookings]_vars

\* C8 witness: an earlier verification has put the booking in progress and
\* consumed its code, and the last call, a verification of that booking, has
\* failed on the cleared code; the ride, verified by part_001's update, has
\* its code cleared as well.
C8_Witness ==
  \E k \in Calls :
    /\ Returned(k) /\ call[k].op = "handleOTPVerification"
    /\ call[k].why = "incorrect_otp" /\ ~call[k].ok
    /\ scheduled_bookings[call[k].ride].status = "in_progress"
    /\ scheduled_bookings[call[k].ride].pickup_otp = NULL
    /\ rides[FirstRide].status = "in_progress"
    /\ rides[FirstRide].pickup_otp = NULL

\* C9: markDriverArrived changes a ride only when its status at write time is
\* accepted, and never writes the pickup OTP.
C9_ArrivedOnlyFromAccepted ==
  [][\A k \in Calls :
       (Stepped(k) /\ call'[k].op = "markDriverArrived")
         => /\ rides[call'[k].ride].status # "accepted" => rides' = rides
            /\ rides'[call'[k].ride].pickup_otp = rides[call'[k].ride].pickup_otp]_vars

\* C10: a ride whose status at write time is not in_progress is not moved to
\* completed and gets no fare written.
C10_CompleteOnlyFromInProgress ==
  [][\A r \in Rides :
       rides[r].status # "in_progress"
         => /\ rides'[r].status = "completed" => rides[r].status = "completed"
            /\ rides'[r].fare_amount = rides[r].fare_amount]_vars

\* C11: a cancelRide call leaves a ride that is requested, completed or
\* already cancelled as it was; a call that cancels records the reason and the
\* canceller on the ride.
C11_CancelOnlyFromActive ==
  [][\A k \in Calls :
       (Stepped(k) /\ Free(k) /\ call'[k].op \in {"cancelRide", "P1_cancelRide"})
         => /\ rides[call'[k].ride].status \notin ActiveStatus => rides' = rides
            /\ rides'[call'[k].ride] # rides[call'[k].ride]
                 => /\ rides'[call'[k].ride].status = "cancelled"
                    /\ rides'[call'[k].ride].cancelled_by # NULL
                    /\ rides'[call'[k].ride].cancellation_reason # NULL]_vars

\* C12: the write of a completeRide call that moves an in_progress ride to
\* completed leaves the ride's drop OTP null, whatever code generateDropOTP
\* had stored.
C12_CompleteClearsDropOtp ==
  [][\A k \in Calls :
       (Stepped(k) /\ call'[k].op \in {"completeRide", "P1_completeRide"}
          /\ rides[call'[k].ride].status = "in_progress"
          /\ rides'[call'[k].ride].status = "completed")
         => rides'[call'[k].ride].drop_otp = NULL]_vars

\* C13: when a completeRide or cancelRide call returns success, the store
\* lists the driver of the call as online.
C13_OnlineAfterCompleteOrCancel ==
  [][\A k \in Calls :
       (Stepped(k) /\ call'[k].at = "returned" /\ call'[k].ok
          /\ call'[k].op \in {"completeRide", "P1_completeRide",
                              "cancelRide", "P1_cancelRide"})
         => driverStatus'[call'[k].drv] = "online"]_vars

\* C14: when an acceptRide call returns success, the store lists the driver of
\* the call as busy.
C14_BusyAfterAccept ==
  [][\A k \in Calls :
       (Stepped(k) /\ call'[k].at = "returned" /\ call'[k].ok
          /\ call'[k].op \in AcceptOps)
         => driverStatus'[call'[k].drv] = "busy"]_vars

\* C15: a ride has a driver exactly when it has been accepted: a requested
\* ride has none, and a ride that is accepted, driver_arrived, in_progress or
\* completed has one (a cancelled ride has one when it was cancelled after
\* assignment).
C15_DriverIffAccepted ==
  \A r \in Rides :
    /\ rides[r].status = "requested" => rides[r].driver_id = NULL
    /\ rides[r].status \in ActiveStatus \cup {"completed"}
         => rides[r].driver_id # NULL

\* C16: a ride carries a pickup OTP only while its status is driver_arrived.
C16_PickupOtpOnlyWhileArrived ==
  \A r \in Rides :
    rides[r].pickup_otp # NULL => rides[r].status = "driver_arrived"

\* C17: a ride's fare amount, distance and duration are non-null exactly when
\* its status is completed.
C17_FareIffCompleted ==
  \A r \in Rides :
    /\ rides[r].fare_amount # NULL <=> rides[r].status = "completed"
    /\ rides[r].distance_km # NULL <=> rides[r].status = "completed"
    /\ rides[r].duration_minutes # NULL <=> rides[r].status = "completed"

DeclineOps == {"declineRide", "P1_declineRide"}

\* C18: no step of a declineRide call changes the rides table: the status and
\* the driver reference of the declined ride are what they were, so that the
\* conditional update of another driver's acceptRide still matches it.
C18_DeclineLeavesRide ==
  [][\A k \in Calls :
       (Stepped(k) /\ call'[k].op \in DeclineOps) => rides' = rides]_vars

\* C18 witness: a driver has declined the ride, and the acceptRide call of
\* another driver has taken that ride.
C18_Witness ==
  \E j, k \in Calls :
    /\ Returned(j) /\ call[j].op \in DeclineOps /\ call[j].ok
    /\ Won(k) /\ call[k].ride = call[j].ride /\ call[k].drv # call[j].drv
    /\ rides[call[k].ride].status = "accepted"
    /\ rides[call[k].ride].driver_id = call[k].drv

\* C19: a ride a driver has declined (the declineRide call has returned) is
\* not among that driver's pending rides.
C19_DeclinedNeverPending ==
  \A k \in Calls :
    (Returned(k) /\ call[k].op \in DeclineOps /\ call[k].ok)
      => call[k].ride \notin pendingRides[call[k].drv]

\* C20: a load whose store read fails leaves the session's current ride,
\* pending rides and scheduled bookings as they were.
C20_FailedReadKeepsState ==
  [][\A p \in Polls :
       (poll'[p] # poll[p] /\ poll'[p].why = "store_error")
         => /\ currentRide' = currentRide
            /\ pendingRides' = pendingRides
            /\ scheduledBookings' = scheduledBookings]_vars

\* The rides a loadPendingRides of driver d whose selects are all answered
\* makes the pending rides: those of the unread ride_request notifications,
\* without the declined ones, still requested and without a driver.
PendingOf(d) ==
  LET rideIds == {n.ride_id : n \in {m \in notifications :
                    m.user_id = d /\ m.type = "ride_request" /\ m.status = "unread"}}
      declinedRideIds == {n.ride_id : n \in {m \in notifications :
                            m.user_id = d /\ m.type = "ride_declined"}}
  IN  Offered(rideIds \ declinedRideIds)

C22_OneRefreshInFlight ==
  \A d \in Drivers :
    Cardinality({p \in Polls : poll[p].drv = d /\ poll[p].run
                                /\ poll[p].at # "idle"}) <= 1

\* C23: once the overlapping checkForNewRides calls have all ended, the
\* pending rides and the current ride are those a single call made after the
\* last write to the store produces.
C23_OverlapSettles ==
  (\A p \in Polls : Done(p))
    => /\ pendingRides[FirstDriver] = PendingOf(FirstDriver)
       /\ currentRide[FirstDriver] = AssignedRide(FirstDriver)
\* Ride r is assigned to driver d and active.
ActiveFor(d, r) ==
  /\ rides[r].driver_id = d
  /\ rides[r].status \in {"accepted", "driver_arrived", "in_progress"}

\* C24: while the driver is online or busy and the selects are answered, a
\* ride that is assigned to the driver and active becomes the session's
\* current ride, and a current ride that is no longer active for the driver
\* stops being the current ride, by the interval alone.
C24_TimerReconciles ==
  \A r \in Rides :
    /\ (ActiveFor(FirstDriver, r) /\ authDriver[FirstDriver] # "offline")
         ~> \/ currentRide[FirstDriver].id = r
            \/ ~ActiveFor(FirstDriver, r)
            \/ authDriver[FirstDriver] = "offline"
    /\ (/\ currentRide[FirstDriver].id = r /\ ~ActiveFor(FirstDriver, r)
        /\ authDriver[FirstDriver] # "offline")
         ~> \/ currentRide[FirstDriver].id # r
            \/ ActiveFor(FirstDriver, r)
            \/ authDriver[FirstDriver] = "offline"
\* The operations of the controller that may write the driver's status.
StatusOps ==
  {"acceptRide", "completeRide", "cancelRide",
   "P1_acceptRide", "P1_completeRide", "P1_cancelRide"}

\* C25: the status of a driver changes only in a step of acceptRide,
\* completeRide or cancelRide of the controller; no handler of a screen
\* writes it.
C25_StatusOnlyByController ==
  [][driverStatus' # driverStatus
       => \E k \in Calls : Stepped(k) /\ call'[k].op \in StatusOps]_vars
\* C26: an acceptRide call that is rejected because the driver is unverified
\* or the profile is incomplete returns false in its first step, having
\* written no row of rides, drivers, live_locations or notifications.
C26_RejectedBeforeWrite ==
  [][\A k \in Calls :
       (/\ Stepped(k) /\ call'[k].op = "acceptRide" /\ call'[k].at = "returned"
        /\ call'[k].why \in {"unverified", "incomplete"})
         => /\ ~call'[k].ok
            /\ call[k].at \notin {"update", "status"}
            /\ store' = store
            /\ notifications' = notifications
            /\ local' = local]_vars

\* C26 witness: the acceptRide call of a driver whose profile is incomplete
\* has returned false, and the ride is still requested without a driver and
\* no location is shared.
C26_Witness ==
  \E k \in Calls :
    /\ Returned(k) /\ call[k].op = "acceptRide" /\ ~call[k].ok
    /\ call[k].why \in {"unverified", "incomplete"}
    /\ rides[call[k].ride].status = "requested"
    /\ rides[call[k].ride].driver_id = NULL
    /\ ~live_locations[call[k].drv]
\* The operations of the controller that C27 names.
ReportingOps ==
  {"acceptRide", "markDriverArrived", "verifyPickupOTP", "completeRide", "cancelRide"}

\* C27: when acceptRide, markDriverArrived, verifyPickupOTP, completeRide or
\* cancelRide returns failure, the error field of the session holds a
\* message, and the message of a failed precondition is not that of a store
\* error.
C27_FailureHasReason ==
  [][\A k \in Calls :
       (/\ Stepped(k) /\ call'[k].at = "returned" /\ ~call'[k].ok
        /\ call'[k].op \in ReportingOps)
         => /\ error'[call'[k].drv] # "null"
            /\ \A first \in BOOLEAN :
                 call'[k].why # "store_error"
                   => error'[call'[k].drv]
                        # Message(call'[k].op, "store_error", first)]_vars
\* C28: the fare completeRide computes for a regular ride is the subtotal
\* base + distance * perKmRate + duration * perMinuteRate raised by the
\* platform fee percent, and no less than the minimum fare (amounts in
\* hundredths, distance in tenths: both sides times 1000); 12.5 km, 30
\* minutes, base 50, 10 per km, no fee, minimum 100 give 175.
C28_RegularFare ==
  (completion.by = "completeRide" /\ completion.booking_type = "regular")
    => LET row == completion.row
           subtotal10 == row.base_fare * 10 + completion.distance * row.per_km_rate
                           + completion.duration * row.per_minute_rate * 10
       IN  /\ completion.total * 1000 =
                Max(subtotal10 * (100 + row.platform_fee_percent),
                    row.minimum_fare * 1000)
           /\ (/\ completion.distance = 125 /\ completion.duration = 30
               /\ row.base_fare = 5000 /\ row.per_km_rate = 1000
               /\ row.per_minute_rate = 0 /\ row.platform_fee_percent = 0
               /\ row.minimum_fare = 10000)
                => completion.total = 17500

\* C28 witness: completeRide has computed the fare of the regular ride of
\* 12.5 km and 30 minutes.
C28_Witness ==
  /\ completion.by = "completeRide" /\ completion.booking_type = "regular"
  /\ completion.distance = 125 /\ completion.duration = 30
  /\ completion.row.base_fare = 5000 /\ completion.row.per_km_rate = 1000
  /\ completion.row.per_minute_rate = 0 /\ completion.row.platform_fee_percent = 0
  /\ completion.row.minimum_fare = 10000
  /\ completion.total = 17500

\* C29: the fare of a completed rental, on either completion path, is base +
\* hours * hourlyRate + overtimeHours * overtimeRate + extraKm * extraKmRate +
\* driverAllowance, with overtimeHours = max(0, ceil(minutes / 60) - hours)
\* and extraKm = max(0, distance - hours * kmLimitPerHour) (both sides times
\* 10).
C29_RentalFare ==
  (completion.by # "none" /\ completion.booking_type = "rental")
    => LET row == completion.row
           hours == completion.rental_hours
           overtimeHours == Max(0, (completion.duration + 59) \div 60 - hours)
           extraKm10 == Max(0, completion.distance - hours * row.km_limit_per_hour * 10)
       IN  completion.total * 10 =
             (row.base_fare + hours * row.hourly_rate
                + overtimeHours * row.overtime_rate
                + row.driver_allowance_per_day) * 10
             + extraKm10 * row.extra_km_rate

\* C30: the fare of a completed outstation booking is base + distance *
\* perKmRate + driverAllowance + nightCharge, the night charge being the
\* configured percent of base and distance fare when the trip ends between
\* 22:00 and 06:00 and 0 at any other time (both sides times 1000).
C30_OutstationFare ==
  (completion.by = "handleCompleteTrip" /\ completion.booking_type = "outstation")
    => LET row == completion.row
           night == completion.endTime >= 22 * 60 \/ completion.endTime <= 6 * 60
           fare10 == row.base_fare * 10 + completion.distance * row.per_km_rate
       IN  completion.total * 1000 =
             fare10 * 100 + row.driver_allowance * 1000
               + (IF night THEN fare10 * row.night_charge_percent ELSE 0)
\* C31: the fare of a completed airport booking is (base + distance *
\* perKmRate + airportFee) times the peak multiplier when the trip ends
\* between 06:00 and 10:00 or between 18:00 and 22:00, and times 1 at any
\* other time (both sides times 10, the multiplier in tenths).
C31_AirportFare ==
  (completion.by = "handleCompleteTrip" /\ completion.booking_type = "airport")
    => LET row == completion.row
           peak == \/ completion.endTime >= 6 * 60 /\ completion.endTime <= 10 * 60
                   \/ completion.endTime >= 18 * 60 /\ completion.endTime <= 22 * 60
           subtotal10 == (row.base_fare + row.airport_fee) * 10
                           + completion.distance * row.per_km_rate
       IN  completion.total * 100 =
             subtotal10 * (IF peak THEN row.peak_hour_multiplier ELSE 10)

\* C32: while a ride is in progress and the distance effect has run on the
\* last sample, the accumulated distance is the sum of the distances between
\* the consecutive samples received since the pickup OTP was verified,
\* whether or not a location was known at the verification.
C32_DistanceIsPathLength ==
  \A d \in Drivers :
    (currentRide[d].status = "in_progress" /\ runs[d] >= 1)
      => totalDistanceTraveled[d] = PathLength(samples[d])

\* The messages completeRide reports when it fails.
CompletionErrors ==
  {"Failed to fetch ride data", "Fare calculation failed - no fare matrix found",
   "Failed to complete ride"}

C40_EffectSettles ==
  \A d \in Drivers : runs[d] >= SettledRuns => ~effect[d]

\* C34: the realtime channels follow the driver's session: while the manager
\* is initialized and a driver is signed in, the channels filter on that
\* driver's ids, whether the driver was known before or after initialize()
\* ran, and no channel ever filters on a driver who is not the one signed in.
C34_ChannelsFollowSession ==
  /\ (managerInitialized /\ sessionDriver # NULL) => realtimeChannel = sessionDriver
  /\ realtimeChannel \in {NULL, sessionDriver}

\* C35: once acceptRide has returned true, the local current ride is the
\* accepted ride for as long as the store holds the ride as the driver's
\* active ride, whatever refresh was reading the store meanwhile.
C35_AcceptedRideStays ==
  \A k \in Calls :
    (/\ call[k].op = "acceptRide" /\ call[k].at = "returned" /\ call[k].ok
     /\ rides[call[k].ride].driver_id = call[k].drv
     /\ rides[call[k].ride].status \in ActiveStatus)
      => currentRide[call[k].drv].id = call[k].ride

\* The operations of the Scheduled Trips screen that write to a booking.
ScreenOps ==
  {"handleAcceptBooking", "handleDeclineBooking", "handleGeneratePickupOTP",
   "handleOTPVerification"}

\* C36: a step of the Scheduled Trips screen of a driver changes a booking
\* only if the booking is assigned to that driver when the step is taken.
C36_ScreenWritesOwnBookings ==
  [][\A k \in Calls, b \in Bookings :
       (/\ Stepped(k) /\ call'[k].op \in ScreenOps
        /\ scheduled_bookings'[b] # scheduled_bookings[b])
         => scheduled_bookings[b].assigned_driver_id = call'[k].drv]_vars

\* C37: acceptScheduledBooking succeeds only on a booking that is assigned to
\* nobody or to the caller: a booking assigned to one driver is never given
\* to another, and of two drivers racing for it at most one gets it.
C37_BookingClaimedOnce ==
  [][\A k \in Calls :
       (/\ Stepped(k) /\ call'[k].op = "acceptScheduledBooking" /\ call'[k].ok)
         => scheduled_bookings[call'[k].ride].assigned_driver_id
              \in {NULL, call'[k].drv}]_vars

\* C38: at most one location subscription is active at any time, whatever
\* the interleaving of the startLocationTracking calls and of the status
\* changes, and none while tracking is off.
C38_OneSubscription ==
  /\ Cardinality(subscriptions) <= 1
  /\ ~isTracking => subscriptions = {}

\* C39: forceCreateLocationRecord returns true when its upsert has
\* succeeded, and it has returned false only after a store write failed.
C39_RecordCreated ==
  \A k \in Calls :
    (activation[k].at = "idle" /\ activation[k].upsert # "none")
      => (activation[k].ok <=> activation[k].upsert = "ok")
====
